---- MODULE Spec2Model ----
(***************************************************************************)
(* Animation extraction of pptx_extractor (animations/extractor.py).       *)
(*                                                                         *)
(* XML parts are ordered trees.  A tree is the sequence of its elements in *)
(* document order; each element records its tag, its attribute list and    *)
(* its depth, so the descendants of an element are the elements that       *)
(* follow it up to the next element that is not deeper.  Python strings    *)
(* are TLA+ strings; Python's None is the empty tuple and a present        *)
(* optional string s is <<s>>; an int-or-string value is [int |-> n] or    *)
(* [str |-> s]; the outcome of a call that may raise is [value |-> v] or   *)
(* [raise |-> e].  A local name of the code that is read more than once    *)
(* is a parameter of the operator that models the code reading it.         *)
(***************************************************************************)
EXTENDS Integers, Sequences, FiniteSets, TLC

VARIABLES
    doc,                  \* the container at pptx_path (the input)
    slide_filter,         \* the slide_filter argument: None or a set of ordinals
    pc,                   \* position of the running call
    run,                  \* ordinal of the call being made
    animations_by_layout, \* the layout index of the running call
    i,                    \* ordinal of the slide being processed
    animation_data,       \* the records stored so far, in insertion order
    result,               \* outcome of the last finished call
    first_result,         \* outcome of the first call, once a second is made
    arg,                  \* argument of a function applied on its own
    ret                   \* value that function returned

vars == <<doc, slide_filter, pc, run, animations_by_layout, i, animation_data,
          result, first_result, arg, ret>>

None == <<>>
Some(x) == <<x>>
IntVal(n) == [int |-> n]
StrVal(s) == [str |-> s]

MinOf(S) == CHOOSE k \in S : \A m \in S : k <= m
FirstOr(S, default) == IF S = {} THEN default ELSE MinOf(S)
HeadOr(s, default) == IF s = <<>> THEN default ELSE s[1]

\* ------------------------------------------------------------ strings

Digits == {"0", "1", "2", "3", "4", "5", "6", "7", "8", "9"}

Ch(s, k) == SubSeq(s, k, k)

\* s[a-1:b]: the characters at positions a to b that exist
Slice(s, a, b) ==
    SubSeq(s, IF a < 1 THEN 1 ELSE a, IF b > Len(s) THEN Len(s) ELSE b)

\* s[:n]
Take(s, n) == Slice(s, 1, n)

\* str.isdigit() on ASCII text: non-empty and every character a digit
IsDigit(s) == Len(s) > 0 /\ \A k \in 1..Len(s) : Ch(s, k) \in Digits

DigitVal(c) ==
    CASE c = "0" -> 0 [] c = "1" -> 1 [] c = "2" -> 2 [] c = "3" -> 3
      [] c = "4" -> 4 [] c = "5" -> 5 [] c = "6" -> 6 [] c = "7" -> 7
      [] c = "8" -> 8 [] c = "9" -> 9

RECURSIVE ParseInt(_)
\* int(s) for a string of digits
ParseInt(s) ==
    IF Len(s) = 0 THEN 0
    ELSE 10 * ParseInt(SubSeq(s, 1, Len(s) - 1)) + DigitVal(Ch(s, Len(s)))

StartsWith(s, p) == Len(p) <= Len(s) /\ SubSeq(s, 1, Len(p)) = p

\* the positions from `from` on at which p occurs in s
Occurrences(s, p, from) ==
    {k \in from..(Len(s) - Len(p) + 1) : SubSeq(s, k, k + Len(p) - 1) = p}

\* p in s
Contains(s, p) == Occurrences(s, p, 1) # {}

\* position of the first occurrence of p in s from position `from`, 0 when none
IndexFrom(s, p, from) == FirstOr(Occurrences(s, p, from), 0)

\* the text of s from position a up to the next occurrence of c at position b
UpToNext(s, a, b) == SubSeq(s, a, IF b = 0 THEN Len(s) ELSE b - 1)
AfterFirst(s, c, a) == UpToNext(s, a + 1, IndexFrom(s, c, a + 1))

\* s.split(c)[0] and s.split(c)[1], c one character occurring in s
SplitAt0(s, c) == SubSeq(s, 1, IndexFrom(s, c, 1) - 1)
SplitAt1(s, c) == AfterFirst(s, c, IndexFrom(s, c, 1))

RECURSIVE RStrip(_, _)
\* s.rstrip(c)
RStrip(s, c) ==
    IF Len(s) > 0 /\ Ch(s, Len(s)) = c THEN RStrip(SubSeq(s, 1, Len(s) - 1), c) ELSE s

RECURSIVE LStrip(_, _)
LStrip(s, c) ==
    IF Len(s) > 0 /\ Ch(s, 1) = c THEN LStrip(SubSeq(s, 2, Len(s)), c) ELSE s

\* s.strip() on text whose only whitespace is the space
Strip(s) == LStrip(RStrip(s, " "), " ")

RECURSIVE ReplaceAll(_, _, _)
\* s with the occurrence of old at position k, and every later one, replaced
ReplaceFrom(s, old, new, k) ==
    IF k = 0 THEN s
    ELSE SubSeq(s, 1, k - 1) \o new
         \o ReplaceAll(SubSeq(s, k + Len(old), Len(s)), old, new)

\* s.replace(old, new), old not empty
ReplaceAll(s, old, new) == ReplaceFrom(s, old, new, IndexFrom(s, old, 1))

UpperLetters == "ABCDEFGHIJKLMNOPQRSTUVWXYZ"
LowerLetters == "abcdefghijklmnopqrstuvwxyz"

LowerAt(c, k) == IF k = 0 THEN c ELSE Ch(LowerLetters, k)

RECURSIVE Lower(_)
\* s.lower() on ASCII text
Lower(s) ==
    IF Len(s) = 0 THEN ""
    ELSE LowerAt(Ch(s, 1), IndexFrom(UpperLetters, Ch(s, 1), 1))
         \o Lower(SubSeq(s, 2, Len(s)))

RECURSIVE Join(_, _)
\* sep.join(parts)
Join(sep, parts) ==
    IF parts = <<>> THEN ""
    ELSE IF Len(parts) = 1 THEN parts[1]
    ELSE parts[1] \o sep \o Join(sep, Tail(parts))

\* the longest run of digits of s that starts at position k
DigitRun(s, k) ==
    Slice(s, k, FirstOr({m \in k..Len(s) : Ch(s, m) \notin Digits}, Len(s) + 1) - 1)

\* the groups of prefix (\d+) middle (\d+) matched at position k, None when
\* it does not match there; a and b are the digit runs after prefix and middle
TwoIntsGroups(s, prefix, middle, k, a, b) ==
    IF /\ Slice(s, k, k + Len(prefix) - 1) = prefix
       /\ a # ""
       /\ Slice(s, k + Len(prefix) + Len(a),
                k + Len(prefix) + Len(a) + Len(middle) - 1) = middle
       /\ b # ""
    THEN <<a, b>> ELSE None

TwoIntsAfter(s, prefix, middle, k, a) ==
    TwoIntsGroups(s, prefix, middle, k, a,
                  DigitRun(s, k + Len(prefix) + Len(a) + Len(middle)))

TwoIntsAt(s, prefix, middle, k) ==
    TwoIntsAfter(s, prefix, middle, k, DigitRun(s, k + Len(prefix)))

\* re.search(prefix + r'(\d+)' + middle + r'(\d+)', s): the two groups of the
\* first match, None when there is none
SearchTwoInts(s, prefix, middle) ==
    HeadOr(SelectSeq([k \in 1..Len(s) |-> TwoIntsAt(s, prefix, middle, k)],
                     LAMBDA g : g # None),
           None)

\* the group of prefix (\d+) suffix matched at position k, a the digit run
OneIntGroup(s, prefix, suffix, k, a) ==
    IF /\ Slice(s, k, k + Len(prefix) - 1) = prefix
       /\ a # ""
       /\ Slice(s, k + Len(prefix) + Len(a),
                k + Len(prefix) + Len(a) + Len(suffix) - 1) = suffix
    THEN Some(a) ELSE None

\* re.search(prefix + r'(\d+)' + suffix, s): the group of the first match,
\* None when there is none
SearchOneInt(s, prefix, suffix) ==
    HeadOr(SelectSeq([k \in 1..Len(s) |->
                         OneIntGroup(s, prefix, suffix, k, DigitRun(s, k + Len(prefix)))],
                     LAMBDA g : g # None),
           None)

\* the tenths t as text with one decimal place
Tenths(t) == ToString(t \div 10) \o "." \o ToString(t % 10)

\* q tenths and a remainder r of a tenth that is `tenth` wide, to the nearest tenth
Rounded(q, r, tenth) ==
    IF 2 * r > tenth \/ (2 * r = tenth /\ q % 2 = 1) THEN q + 1 ELSE q

\* f"{n / unit:.1f}" for unit a multiple of 10: one decimal place, the nearest
\* tenth; an exact binary tie (x.25, x.75) goes to the even tenth.  The other
\* decimal ties (x.05, x.15, ...) are decided by the binary expansion of the
\* quotient and are kept out of the inputs.
Format1f(n, unit) ==
    Tenths(Rounded(n \div (unit \div 10), n % (unit \div 10), unit \div 10))

\* ---------------------------------------------------------------- XML

RECURSIVE Flatten(_)
Flatten(ss) == IF ss = <<>> THEN <<>> ELSE Head(ss) \o Flatten(Tail(ss))

Deeper(t) == [k \in 1..Len(t) |-> [t[k] EXCEPT !.d = @ + 1]]

\* one element with its attribute list and its child trees
El(tag, attrs, kids) ==
    <<[tag |-> tag, a |-> attrs, d |-> 0]>> \o
    Flatten([k \in 1..Len(kids) |-> Deeper(kids[k])])

Attr(name, value) == <<name, value>>

\* the value of the attribute at position k of the list, default when k = 0
AttrAt(attrs, k, default) == IF k = 0 THEN default ELSE attrs[k][2]

\* element.get(name, default)
Get(t, n, name, default) ==
    AttrAt(t[n].a, FirstOr({k \in 1..Len(t[n].a) : t[n].a[k][1] = name}, 0), default)

\* last element of the subtree rooted at n
LastOf(t, n) == FirstOr({k \in (n + 1)..Len(t) : t[k].d <= t[n].d}, Len(t) + 1) - 1

\* the elements with that tag among those at positions n + 1 to last
Tagged(t, n, last, tag) ==
    SelectSeq([k \in 1..(last - n) |-> n + k], LAMBDA k : t[k].tag = tag)

\* element.findall('.//tag'): the descendants with that tag, in document order
FindAll(t, n, tag) == Tagged(t, n, LastOf(t, n), tag)

\* element.find('.//tag'): the first such descendant; 0 stands for None
Find(t, n, tag) == HeadOr(FindAll(t, n, tag), 0)

\* bool(element): an element that is not None and has at least one child
Truthy(t, n) == n # 0 /\ LastOf(t, n) > n

\* --------------------------------------------- has_animations_in_xml

HasPars(t, tn_lt) == tn_lt # 0 /\ Len(FindAll(t, tn_lt, "p:par")) # 0

HasTnLst(t, timing_node) ==
    timing_node # 0 /\ HasPars(t, Find(t, timing_node, "p:tnLst"))

\* the part's root is element 1 of its tree
has_animations_in_xml(t) == HasTnLst(t, Find(t, 1, "p:timing"))

\* -------------------------------------------- extract_animation_info

\* a faulty variant of DurationMs: a token that is no number coerced to 0
DurationMsOrZero(effect_dur) ==
    IF effect_dur # "unknown" /\ IsDigit(effect_dur)
    THEN IntVal(ParseInt(effect_dur))
    ELSE IntVal(0)

\* duration_ms of an effect container: the int when dur is a digit string
DurationMs(effect_dur) ==
    IF effect_dur # "unknown" /\ IsDigit(effect_dur)
    THEN IntVal(ParseInt(effect_dur))
    ELSE StrVal("unknown")

BuildLevelOfRange(t, pRg) ==
    IF pRg = 0 THEN None
    ELSE Some("paragraph_" \o Get(t, pRg, "st", "0") \o "-" \o Get(t, pRg, "end", "0"))

BuildLevelOfText(t, txEl) ==
    IF txEl = 0 THEN None ELSE BuildLevelOfRange(t, Find(t, txEl, "p:pRg"))

TargetOfShape(t, shape_id_el) ==
    IF shape_id_el = 0 THEN [shape_id |-> "unknown", build_level |-> None]
    ELSE [shape_id |-> Get(t, shape_id_el, "spid", "unknown"),
          build_level |-> BuildLevelOfText(t, Find(t, shape_id_el, "p:txEl"))]

\* shape_id and build_level from the target element
TargetOf(t, tgt_el) == TargetOfShape(t, Find(t, tgt_el, "p:spTgt"))

\* the fields parsed from the transition and the filter of an animEffect
FilterFields(transition, filter_attr) ==
    [effect_type |-> transition,
     effect_subtype |->
         IF filter_attr = "" THEN None
         ELSE IF Contains(filter_attr, "(") THEN Some(SplitAt0(filter_attr, "("))
         ELSE Some(filter_attr),
     effect_direction |->
         IF filter_attr # "" /\ Contains(filter_attr, "(")
         THEN Some(RStrip(SplitAt1(filter_attr, "("), ")"))
         ELSE None]

\* effect_type, effect_subtype, effect_direction after the animEffect block
FromAnimEffect(t, anim_effect) ==
    IF anim_effect = 0
    THEN [effect_type |-> "appear", effect_subtype |-> None, effect_direction |-> None]
    ELSE FilterFields(Get(t, anim_effect, "transition", "in"),
                      Get(t, anim_effect, "filter", ""))

ColorOf(t, rgb, direction) ==
    IF rgb # 0 THEN Some("to_color_" \o Get(t, rgb, "val", "")) ELSE direction

ColorDirection(t, to_clr, direction) ==
    IF Truthy(t, to_clr) THEN ColorOf(t, Find(t, to_clr, "a:srgbClr"), direction)
    ELSE direction

ApplyAnimClr(t, anim_clr, f) ==
    IF ~Truthy(t, anim_clr) THEN f
    ELSE [effect_type |-> "emphasis",
          effect_subtype |-> Some("color"),
          effect_direction |->
              ColorDirection(t, Find(t, anim_clr, "p:to"), f.effect_direction)]

\* the animClr block applied to the fields so far
WithAnimClr(t, child_par, f) == ApplyAnimClr(t, Find(t, child_par, "p:animClr"), f)

ApplyAnimMotion(t, anim_motion, f) ==
    IF ~Truthy(t, anim_motion) THEN f
    ELSE [effect_type |-> "motion",
          effect_subtype |-> Some("path"),
          effect_direction |->
              IF Get(t, anim_motion, "path", "") # "" THEN Some("custom_path")
              ELSE f.effect_direction]

\* the animMotion block applied to the fields so far
WithAnimMotion(t, child_par, f) ==
    ApplyAnimMotion(t, Find(t, child_par, "p:animMotion"), f)

ScaleDirection(t, by_x, direction) ==
    IF by_x # 0
    THEN Some("scale_x" \o Get(t, by_x, "x", "100000") \o "_y"
              \o Get(t, by_x, "y", "100000"))
    ELSE direction

ApplyAnimScale(t, anim_scale, f) ==
    IF ~Truthy(t, anim_scale) THEN f
    ELSE [effect_type |-> "emphasis",
          effect_subtype |-> Some("grow/shrink"),
          effect_direction |->
              ScaleDirection(t, Find(t, anim_scale, "p:by"), f.effect_direction)]

\* the animScale block applied to the fields so far
WithAnimScale(t, child_par, f) ==
    ApplyAnimScale(t, Find(t, child_par, "p:animScale"), f)

\* the other animation types, checked when the animEffect is None or childless
OtherTypes(t, child_par, anim_effect, f) ==
    IF Truthy(t, anim_effect) THEN f
    ELSE WithAnimScale(t, child_par, WithAnimMotion(t, child_par, WithAnimClr(t, child_par, f)))

ClassifyWith(t, child_par, anim_effect) ==
    OtherTypes(t, child_par, anim_effect, FromAnimEffect(t, anim_effect))

\* the classification of one effect container
Classify(t, child_par) == ClassifyWith(t, child_par, Find(t, child_par, "p:animEffect"))

DefaultStart == [start_condition |-> "on_click", delay_ms |-> 0]

AfterPrevious(t, tn) == tn # 0 /\ Get(t, tn, "val", "") = "indefinite"

\* a faulty variant of StartFields: the delay token looked at before the event
StartFieldsDelayFirst(t, cond, evt, delay) ==
    [start_condition |->
         IF delay = "indefinite" THEN "on_click"
         ELSE IF evt = "onBegin" THEN "with_previous"
         ELSE IF evt = "onClick" THEN "on_click"
         ELSE IF AfterPrevious(t, Find(t, cond, "p:tn")) THEN "after_previous"
         ELSE "on_click",
     delay_ms |->
         IF delay # "" /\ delay # "indefinite" /\ IsDigit(delay)
         THEN ParseInt(delay) ELSE 0]

StartFields(t, cond, evt, delay) ==
    [start_condition |->
         IF evt = "onBegin" THEN "with_previous"
         ELSE IF evt = "onClick" THEN "on_click"
         ELSE IF delay = "indefinite" THEN "on_click"
         ELSE IF AfterPrevious(t, Find(t, cond, "p:tn")) THEN "after_previous"
         ELSE "on_click",
     delay_ms |->
         IF delay # "" /\ delay # "indefinite" /\ IsDigit(delay)
         THEN ParseInt(delay) ELSE 0]

StartOfCond(t, cond) ==
    IF cond = 0 THEN DefaultStart
    ELSE StartFields(t, cond, Get(t, cond, "evt", ""), Get(t, cond, "delay", "0"))

StartOfList(t, stCondLst) ==
    IF Truthy(t, stCondLst) THEN StartOfCond(t, Find(t, stCondLst, "p:cond"))
    ELSE DefaultStart

\* start_condition and delay_ms from the container's first condition list
StartOf(t, child_ctn) == StartOfList(t, Find(t, child_ctn, "p:stCondLst"))

\* the dictionary appended for one effect
AnimationOf(seq_id, effect_id, tg, cl, st, duration_ms, node_type, repeat_count, auto_reverse) ==
    [sequence_id |-> seq_id,
     effect_id |-> effect_id,
     shape_id |-> tg.shape_id,
     effect_type |-> cl.effect_type,
     effect_subtype |-> cl.effect_subtype,
     effect_direction |-> cl.effect_direction,
     start_condition |-> st.start_condition,
     delay_ms |-> st.delay_ms,
     duration_ms |-> duration_ms,
     build_level |-> tg.build_level,
     node_type |-> node_type,
     repeat_count |-> repeat_count,
     auto_reverse |-> auto_reverse]

EffectRecord(t, ctn, seq_id, j, child_par, child_ctn, tgt_el) ==
    AnimationOf(seq_id,
                Get(t, child_ctn, "id", "unknown_effect_" \o ToString(j)),
                TargetOf(t, tgt_el),
                Classify(t, child_par),
                StartOf(t, child_ctn),
                DurationMs(Get(t, child_ctn, "dur", "unknown")),
                Get(t, ctn, "nodeType", "mainSeq"),
                Get(t, ctn, "repeatCount", "1"),
                Get(t, ctn, "autoRev", "0") = "1")

\* the visit of child_par once its time node and target element are looked up:
\* nothing when either is None, else the effect with the loop indices and the
\* elements it is appended for
VisitEffectAt(t, ii, par, ctn, seq_id, j, child_par, child_ctn, tgt_el) ==
    IF child_ctn = 0 \/ tgt_el = 0 THEN <<>>
    ELSE <<[seq_pos |-> ii, par |-> par, effect_pos |-> j, child_par |-> child_par,
            anim |-> EffectRecord(t, ctn, seq_id, j, child_par, child_ctn, tgt_el)]>>

\* one pass of the inner loop
VisitEffect(t, ii, par, ctn, seq_id, j, child_par) ==
    VisitEffectAt(t, ii, par, ctn, seq_id, j, child_par,
                  Find(t, child_par, "p:cTn"), Find(t, child_par, "p:tgtEl"))

\* a faulty variant of VisitEffects: the loop ends at the first group that
\* gives no effect
VisitEffectsUntilSkip(t, ii, par, ctn, seq_id, child_pars) ==
    Flatten([j \in 1..Len(child_pars) |->
                IF \E m \in 1..j : VisitEffect(t, ii, par, ctn, seq_id, m - 1,
                                                child_pars[m]) = <<>>
                THEN <<>>
                ELSE VisitEffect(t, ii, par, ctn, seq_id, j - 1, child_pars[j])])

\* the inner loop over the parallel groups of the child list, in list order
VisitEffects(t, ii, par, ctn, seq_id, child_pars) ==
    Flatten([j \in 1..Len(child_pars) |->
                VisitEffect(t, ii, par, ctn, seq_id, j - 1, child_pars[j])])

VisitChildList(t, ii, par, ctn, seq_id, child_tn_lt) ==
    IF child_tn_lt = 0 THEN <<>>
    ELSE VisitEffects(t, ii, par, ctn, seq_id, FindAll(t, child_tn_lt, "p:par"))

VisitContainer(t, ii, par, ctn) ==
    IF ctn = 0 THEN <<>>
    ELSE VisitChildList(t, ii, par, ctn, Get(t, ctn, "id", "unknown_" \o ToString(ii)),
                        Find(t, ctn, "p:childTnLst"))

\* one pass of the outer loop
VisitSequence(t, ii, par) == VisitContainer(t, ii, par, Find(t, par, "p:cTn"))

\* a faulty variant of VisitSequences: the groups visited last to first
VisitSequencesBackwards(t, pars) ==
    Flatten([k \in 1..Len(pars) |->
                VisitSequence(t, Len(pars) - k, pars[Len(pars) - k + 1])])

\* the outer loop over the parallel groups of the timing list, in list order
VisitSequences(t, pars) ==
    Flatten([k \in 1..Len(pars) |-> VisitSequence(t, k - 1, pars[k])])

WalkList(t, tn_lt) ==
    IF tn_lt = 0 THEN <<>> ELSE VisitSequences(t, FindAll(t, tn_lt, "p:par"))

WalkTiming(t, timing_node) ==
    IF timing_node = 0 THEN <<>> ELSE WalkList(t, Find(t, timing_node, "p:tnLst"))

\* the walk of extract_animation_info over the part with root t[1]
Walk(t) == WalkTiming(t, Find(t, 1, "p:timing"))

\* the list returned: the appended dictionaries
Appended(w) == [k \in 1..Len(w) |-> w[k].anim]

extract_animation_info(t) == Appended(Walk(t))

\* ------------------------------------- create_animation_description

\* shape_info.get(shape_id, {}) with the defaults of the two fields read
ShapeDetails(shape_info, shape_id) ==
    IF shape_id \in DOMAIN shape_info THEN shape_info[shape_id]
    ELSE [type |-> "element", text |-> ""]

\* display_text
DisplayText(shape_text) ==
    Strip(Take(shape_text, 100)) \o (IF Len(shape_text) > 100 THEN "..." ELSE "")

\* element_desc from the shape's type and text
ElementDescOf(shape_type, shape_text) ==
    IF shape_text # ""
    THEN IF shape_type \in {"text box", "text placeholder", "title"}
         THEN "The " \o shape_type \o " containing \"" \o DisplayText(shape_text) \o "\""
         ELSE IF shape_type = "picture" THEN "An image/picture element"
         ELSE "A " \o shape_type \o " element with content \""
              \o DisplayText(shape_text) \o "\""
    ELSE IF shape_type = "picture" THEN "An image/picture element"
         ELSE IF shape_type \in {"auto shape", "freeform"} THEN "A shape element"
         ELSE "A " \o shape_type \o " element"

ElementDesc(shape_details) ==
    ElementDescOf(Lower(ReplaceAll(shape_details.type, "_", " ")), shape_details.text)

\* effect_descriptions[effect_type][effect_subtype], None when there is none
EffectDescriptions(key) ==
    CASE key = <<"in", "fade">> -> Some("fades into view")
      [] key = <<"in", "fly">> -> Some("flies in")
      [] key = <<"in", "wipe">> -> Some("wipes in")
      [] key = <<"in", "zoom">> -> Some("zooms in")
      [] key = <<"in", "swivel">> -> Some("swivels in")
      [] key = <<"in", "bounce">> -> Some("bounces in")
      [] key = <<"in", "float">> -> Some("floats in")
      [] key = <<"in", "split">> -> Some("splits and enters")
      [] key = <<"in", "appear">> -> Some("appears instantly")
      [] key = <<"out", "fade">> -> Some("fades out of view")
      [] key = <<"out", "fly">> -> Some("flies out")
      [] key = <<"out", "wipe">> -> Some("wipes out")
      [] key = <<"out", "zoom">> -> Some("zooms out")
      [] key = <<"out", "swivel">> -> Some("swivels out")
      [] key = <<"out", "bounce">> -> Some("bounces out")
      [] key = <<"out", "float">> -> Some("floats out")
      [] key = <<"out", "split">> -> Some("splits and exits")
      [] key = <<"out", "disappear">> -> Some("disappears instantly")
      [] key = <<"emphasis", "color">> -> Some("changes color")
      [] key = <<"emphasis", "grow/shrink">> -> Some("grows and shrinks")
      [] key = <<"emphasis", "spin">> -> Some("spins")
      [] key = <<"emphasis", "pulse">> -> Some("pulses")
      [] key = <<"emphasis", "teeter">> -> Some("teeters")
      [] key = <<"emphasis", "flash">> -> Some("flashes")
      [] key = <<"emphasis", "shimmer">> -> Some("shimmers")
      [] key = <<"motion", "path">> -> Some("follows a motion path")
      [] key = <<"motion", "turn">> -> Some("turns")
      [] key = <<"motion", "grow">> -> Some("grows in size")
      [] key = <<"motion", "shrink">> -> Some("shrinks in size")
      [] OTHER -> None

\* a faulty variant of ActionOr: the table entry is never used
ActionGeneric(known, effect_type) ==
    IF effect_type = "in" THEN "enters the slide"
    ELSE IF effect_type = "out" THEN "exits the slide"
    ELSE IF effect_type = "emphasis" THEN "is emphasized"
    ELSE IF effect_type = "motion" THEN "moves"
    ELSE "animates"

\* the action chosen once the table is looked up
ActionOr(known, effect_type) ==
    IF known # None THEN known[1]
    ELSE IF effect_type = "in" THEN "enters the slide"
    ELSE IF effect_type = "out" THEN "exits the slide"
    ELSE IF effect_type = "emphasis" THEN "is emphasized"
    ELSE IF effect_type = "motion" THEN "moves"
    ELSE "animates"

\* the action before the direction details
ActionOf(effect_type, effect_subtype) ==
    ActionOr(IF effect_subtype = None THEN None
             ELSE EffectDescriptions(<<effect_type, effect_subtype[1]>>),
             effect_type)

\* direction_map: the entry for a direction, None when there is none
DirectionMap(direction) ==
    CASE direction = "fromBottom" -> Some("from the bottom")
      [] direction = "fromTop" -> Some("from the top")
      [] direction = "fromLeft" -> Some("from the left")
      [] direction = "fromRight" -> Some("from the right")
      [] direction = "fromBottomLeft" -> Some("from the bottom-left corner")
      [] direction = "fromBottomRight" -> Some("from the bottom-right corner")
      [] direction = "fromTopLeft" -> Some("from the top-left corner")
      [] direction = "fromTopRight" -> Some("from the top-right corner")
      [] direction = "horizontal" -> Some("horizontally")
      [] direction = "vertical" -> Some("vertically")
      [] direction = "in" -> Some("inward")
      [] direction = "out" -> Some("outward")
      [] OTHER -> None

\* the scale branch, scale_match the groups found
ScaleWords(scale_match) ==
    IF scale_match = None THEN ""
    ELSE " by " \o Format1f(ParseInt(scale_match[1]), 100000) \o "x horizontally and "
         \o Format1f(ParseInt(scale_match[2]), 100000) \o "x vertically"

\* what a direction that is not empty adds to the action
DirectionWords(direction, mapped) ==
    IF mapped # None THEN " " \o mapped[1]
    ELSE IF StartsWith(direction, "to_color_")
         THEN " to the color " \o ReplaceAll(direction, "to_color_", "#")
    ELSE IF Contains(direction, "scale")
         THEN ScaleWords(SearchTwoInts(direction, "scale_x", "_y"))
    ELSE ""

\* what the direction details add to the action
DirectionClause(effect_direction) ==
    IF effect_direction = None \/ effect_direction[1] = "" THEN ""
    ELSE DirectionWords(effect_direction[1], DirectionMap(effect_direction[1]))

StartClause(start) ==
    IF start = "on_click" THEN <<"This animation starts when the presenter clicks">>
    ELSE IF start = "with_previous"
         THEN <<"This animation plays simultaneously with the previous animation">>
    ELSE IF start = "after_previous"
         THEN <<"This animation starts automatically after the previous animation completes">>
    ELSE <<>>

DelayClause(delay) ==
    IF delay # 0 /\ delay > 0
    THEN IF delay >= 1000
         THEN <<"with a " \o Format1f(delay, 1000) \o " second delay">>
         ELSE <<"with a " \o ToString(delay) \o " millisecond delay">>
    ELSE <<>>

\* a faulty variant of DurationClause: seconds only above one second
DurationClauseAboveOneSecond(duration) ==
    IF duration # StrVal("unknown")
    THEN IF duration.int > 1000
         THEN <<"taking " \o Format1f(duration.int, 1000) \o " seconds to complete">>
         ELSE <<"taking " \o ToString(duration.int) \o " milliseconds to complete">>
    ELSE <<>>

DurationClause(duration) ==
    IF duration # StrVal("unknown")
    THEN IF duration.int >= 1000
         THEN <<"taking " \o Format1f(duration.int, 1000) \o " seconds to complete">>
         ELSE <<"taking " \o ToString(duration.int) \o " milliseconds to complete">>
    ELSE <<>>

\* a faulty variant of RepeatClause: a single run is worded as a repetition
RepeatClauseAlways(repeat) ==
    IF repeat = "indefinite" THEN <<"repeating continuously">>
    ELSE <<"repeating " \o repeat \o " times">>

RepeatClause(repeat) ==
    IF repeat # "1"
    THEN IF repeat = "indefinite" THEN <<"repeating continuously">>
         ELSE <<"repeating " \o repeat \o " times">>
    ELSE <<>>

AutoReverseClause(auto_reverse) ==
    IF auto_reverse THEN <<"then reversing back to its original state">> ELSE <<>>

ParagraphWords(start_para, end_para) ==
    IF start_para = end_para
    THEN <<"animating paragraph " \o ToString(start_para + 1)>>
    ELSE <<"animating paragraphs " \o ToString(start_para + 1) \o " through "
           \o ToString(end_para + 1)>>

ParagraphClause(para_match) ==
    IF para_match = None THEN <<>>
    ELSE ParagraphWords(ParseInt(para_match[1]), ParseInt(para_match[2]))

BuildLevelClause(build_level) ==
    IF build_level = None \/ build_level[1] = "" THEN <<>>
    ELSE ParagraphClause(SearchTwoInts(build_level[1], "paragraph_", "-"))

\* the list timing_desc
TimingDesc(animation) ==
    StartClause(animation.start_condition) \o DelayClause(animation.delay_ms)
    \o DurationClause(animation.duration_ms) \o RepeatClause(animation.repeat_count)
    \o AutoReverseClause(animation.auto_reverse)
    \o BuildLevelClause(animation.build_level)

\* what timing_desc adds to the description
TimingSentences(timing_desc) ==
    IF timing_desc # <<>> THEN " " \o Join(". ", timing_desc) \o "." ELSE ""

SequenceNote(seq_id, effect_id) ==
    IF seq_id # "" /\ effect_id # ""
    THEN " (Animation sequence " \o seq_id \o ", effect " \o effect_id \o ")"
    ELSE ""

\* the text built when every statement of the function runs
DescriptionText(animation, shape_info) ==
    ElementDesc(ShapeDetails(shape_info, animation.shape_id)) \o " "
    \o ActionOf(animation.effect_type, animation.effect_subtype)
    \o DirectionClause(animation.effect_direction) \o "."
    \o TimingSentences(TimingDesc(animation))
    \o SequenceNote(animation.sequence_id, animation.effect_id)

\* `import re` at line 355 makes re a local name of the whole function, bound
\* only once the scale branch has run
ReIsBound(effect_direction) ==
    /\ effect_direction # None
    /\ effect_direction[1] # ""
    /\ DirectionMap(effect_direction[1]) = None
    /\ ~StartsWith(effect_direction[1], "to_color_")
    /\ Contains(effect_direction[1], "scale")

\* the re.search of the build level block is reached with re unbound
DescriptionRaises(animation) ==
    /\ animation.build_level # None
    /\ animation.build_level[1] # ""
    /\ ~ReIsBound(animation.effect_direction)

\* the outcome of a call: the string returned or the exception raised
create_animation_description(animation, shape_info) ==
    IF DescriptionRaises(animation) THEN [raise |-> "UnboundLocalError"]
    ELSE [value |-> DescriptionText(animation, shape_info)]

\* ------------------------------------------------------ the container

\* The parts of a container d: d.slides lists the slide objects in presentation
\* order, each with the number of its part ppt/slides/slide<n>.xml, its XML,
\* its shapes and the targets of its relationship record (None: no record);
\* d.layouts and d.masters list the layout and master parts in name order.
SlidePartNumbers(d) == {d.slides[k].part : k \in 1..Len(d.slides)}
SlidePart(d, n) == d.slides[CHOOSE k \in 1..Len(d.slides) : d.slides[k].part = n]
LayoutNumbers(d) == {d.layouts[k].idx : k \in 1..Len(d.layouts)}
LayoutPart(d, idx) == d.layouts[CHOOSE k \in 1..Len(d.layouts) : d.layouts[k].idx = idx]

\* --------------------------------------- check_slide_master_animations

\* the XML of a part that ET.parse rejects
Unparsable == <<>>

Parses(part) == Len(part.xml) > 0

AllParse(parts) == \A k \in DOMAIN parts : Parses(parts[k])

\* the parts of a loop that are read before ET.parse raises: the one try
\* block holds both loops, so the first part that fails ends the scan
ParsedPrefix(parts) ==
    SubSeq(parts, 1, MinOf({k \in 1..Len(parts) : ~Parses(parts[k])}
                           \cup {Len(parts) + 1}) - 1)

\* the keys set for the parts of one kind that have animations
FlaggedKeys(parts, prefix) ==
    {prefix \o parts[k].idx :
        k \in {m \in 1..Len(parts) : has_animations_in_xml(parts[m].xml)}}

\* the keys of the dictionary returned; every value is True. The masters are
\* scanned first, then the layouts, each in the order of the archive's names.
check_slide_master_animations(d) ==
    FlaggedKeys(ParsedPrefix(d.masters), "master_")
    \cup (IF AllParse(d.masters)
          THEN FlaggedKeys(ParsedPrefix(d.layouts), "layout_") ELSE {})

\* ---------------------------------------------- get_slide_layout_info

\* the first target of a relationship record that names a part of that kind
\* with a number: the number, None when there is none
FirstNumbered(rels, kind) ==
    HeadOr(SelectSeq([k \in 1..Len(rels) |->
                         IF Contains(rels[k], kind)
                         THEN SearchOneInt(rels[k], kind, ".xml") ELSE None],
                     LAMBDA g : g # None),
           None)

MasterOfLayout(d, layout_idx) ==
    IF layout_idx = None \/ layout_idx[1] \notin LayoutNumbers(d) THEN None
    ELSE IF LayoutPart(d, layout_idx[1]).rels = None THEN None
    ELSE FirstNumbered(LayoutPart(d, layout_idx[1]).rels[1], "slideMaster")

LayoutInfoOf(d, layout_idx) ==
    [layout_idx |-> layout_idx, master_idx |-> MasterOfLayout(d, layout_idx)]

get_slide_layout_info(slide_number, d) ==
    LayoutInfoOf(d,
        IF slide_number \in SlidePartNumbers(d) /\ SlidePart(d, slide_number).rels # None
        THEN FirstNumbered(SlidePart(d, slide_number).rels[1], "slideLayout")
        ELSE None)

\* ------------------------------------------- extract_slide_animations

RECURSIVE get_slide_title(_)
\* get_slide_title: the text of the first shape that has any
get_slide_title(shapes) ==
    IF shapes = <<>> THEN "Untitled"
    ELSE IF Head(shapes).has_text_frame /\ Strip(Head(shapes).text) # ""
         THEN ReplaceAll(Strip(Head(shapes).text), "\n", " ")
    ELSE get_slide_title(Tail(shapes))

\* the entry of shape_info for a shape of that type and stripped text
ShapeEntryOf(shape_type, shape_text) ==
    [type |-> ReplaceAll(shape_type, "MSO_SHAPE_TYPE.", ""),
     text |-> Take(shape_text, 100) \o (IF Len(shape_text) > 100 THEN "..." ELSE "")]

ShapeEntry(shape) ==
    ShapeEntryOf(shape.shape_type, IF shape.has_text_frame THEN Strip(shape.text) ELSE "")

\* the last shape with that identifier
LastWith(shapes, id) ==
    CHOOSE k \in 1..Len(shapes) :
        /\ ToString(shapes[k].shape_id) = id
        /\ \A m \in 1..Len(shapes) : ToString(shapes[m].shape_id) = id => m <= k

\* shape_info: a later shape with the same identifier replaces an earlier one
ShapeInfo(shapes) ==
    [id \in {ToString(shapes[k].shape_id) :
                k \in {m \in 1..Len(shapes) : shapes[m].shape_id # 0}}
        |-> ShapeEntry(shapes[LastWith(shapes, id)])]

\* a faulty variant of Transition: a value that names the call that produced it
TransitionOfCall(slide) == "call " \o ToString(run)

\* slide.slide_layout has no attribute 'transition' in python-pptx
Transition(slide) == "None"

\* the details list once the head's description and the tail's details are known
DetailsWith(anim, d, rest) ==
    IF "raise" \in DOMAIN d THEN d
    ELSE IF "raise" \in DOMAIN rest THEN rest
    ELSE [value |-> <<anim @@ [description |-> d.value]>> \o rest.value]

RECURSIVE DirectDetails(_, _)
\* the details of the slide's own effects; raised when a description raises
DirectDetails(animations, shape_info) ==
    IF animations = <<>> THEN [value |-> <<>>]
    ELSE DetailsWith(Head(animations),
                     create_animation_description(Head(animations), shape_info),
                     DirectDetails(Tail(animations), shape_info))

InheritedPrefix == "[Inherited from layout] "

RECURSIVE InheritedDetails(_, _, _)
\* the inherited details from the effect anim on, d its description
InheritedWith(anim, d, later, layout_idx, shape_info) ==
    IF "raise" \in DOMAIN d THEN <<>>
    ELSE <<anim @@ [inherited_from |-> "layout_" \o layout_idx,
                    description |-> InheritedPrefix \o d.value]>>
         \o InheritedDetails(later, layout_idx, shape_info)

\* the details appended from the layout's effects; the loop ends at the first
\* description that raises, inside the try block
InheritedDetails(layout_animations, layout_idx, shape_info) ==
    IF layout_animations = <<>> THEN <<>>
    ELSE InheritedWith(Head(layout_animations),
                       create_animation_description(Head(layout_animations), shape_info),
                       Tail(layout_animations), layout_idx, shape_info)

\* a faulty variant of LayoutDetails: the layout's effects are appended also
\* when the slide has effects of its own
LayoutDetailsAlways(d, animations, layout_has_animations, layout_idx, shape_info) ==
    IF layout_has_animations /\ layout_idx[1] \in LayoutNumbers(d)
    THEN InheritedDetails(extract_animation_info(LayoutPart(d, layout_idx[1]).xml),
                          layout_idx[1], shape_info)
    ELSE <<>>

\* the effects of the slide's layout, when the slide has none of its own
LayoutDetails(d, animations, layout_has_animations, layout_idx, shape_info) ==
    IF layout_has_animations /\ Len(animations) = 0 /\ layout_idx[1] \in LayoutNumbers(d)
    THEN InheritedDetails(extract_animation_info(LayoutPart(d, layout_idx[1]).xml),
                          layout_idx[1], shape_info)
    ELSE <<>>

IsInherited(detail) == "inherited_from" \in DOMAIN detail

\* a faulty variant of FlowSentence: one sequence, however many there are
FlowSentenceSingle(sequences) == <<"The animations play in a single sequence.">>

\* the sentence about the sequences
FlowSentence(sequences) ==
    IF Cardinality(sequences) = 1
    THEN <<"The animations play in a single sequence.">>
    ELSE <<"The animations are organized in " \o ToString(Cardinality(sequences))
           \o " sequences.">>

\* the sentence about where the effects come from
OriginSentence(animation_details, layout_has_animations, has_slide_animations) ==
    IF layout_has_animations /\ ~has_slide_animations
    THEN <<"All animations are inherited from the slide layout.">>
    ELSE IF has_slide_animations /\ layout_has_animations
    THEN <<ToString(Cardinality({k \in DOMAIN animation_details :
                                    ~IsInherited(animation_details[k])}))
           \o " animations are directly applied and "
           \o ToString(Cardinality({k \in DOMAIN animation_details :
                                       IsInherited(animation_details[k])}))
           \o " are inherited from the layout.">>
    ELSE <<>>

\* a faulty variant of AnimationSummary: the counting sentences also for no effect
AnimationSummaryCounted(animation_details, layout_has_animations, has_slide_animations) ==
    Join(" ",
         <<"This slide has " \o ToString(Len(animation_details)) \o " animation effects.">>
         \o OriginSentence(animation_details, layout_has_animations, has_slide_animations)
         \o FlowSentence({animation_details[k].sequence_id :
                             k \in DOMAIN animation_details}))

AnimationSummary(animation_details, layout_has_animations, has_slide_animations) ==
    IF animation_details = <<>> THEN "This slide has no animations."
    ELSE Join(" ",
              <<"This slide has " \o ToString(Len(animation_details))
                \o " animation effects.">>
              \o OriginSentence(animation_details, layout_has_animations,
                                has_slide_animations)
              \o FlowSentence({animation_details[k].sequence_id :
                                  k \in DOMAIN animation_details}))

\* a faulty variant of SlideRecord: has_animations taken from the details list
SlideRecordFromDetails(n, title, animations, animation_details, animation_summary, shape_info, transition, has_slide_animations, layout_has_animations) ==
    [slide_number |-> n,
     title |-> title,
     animations |-> animations,
     animation_details |-> animation_details,
     animation_summary |-> animation_summary,
     shapes |-> shape_info,
     transition |-> transition,
     animation_count |-> Len(animation_details),
     has_animations |-> Len(animation_details) > 0,
     layout_animations |-> layout_has_animations,
     direct_animations |-> has_slide_animations]

\* the record stored for a slide
SlideRecord(n, title, animations, animation_details, animation_summary, shape_info, transition, has_slide_animations, layout_has_animations) ==
    [slide_number |-> n,
     title |-> title,
     animations |-> animations,
     animation_details |-> animation_details,
     animation_summary |-> animation_summary,
     shapes |-> shape_info,
     transition |-> transition,
     animation_count |-> Len(animation_details),
     has_animations |-> has_slide_animations \/ layout_has_animations,
     layout_animations |-> layout_has_animations,
     direct_animations |-> has_slide_animations]

\* a faulty variant of PassRecord: the details of the slide's own effects are
\* the dictionaries of the raw list themselves, not copies
PassRecordAliased(n, slide, animations, shape_info, has_slide_animations, layout_has_animations, animation_details) ==
    SlideRecord(n, get_slide_title(slide.shapes),
                IF animations = <<>> THEN animations ELSE animation_details,
                animation_details,
                AnimationSummary(animation_details, layout_has_animations,
                                 has_slide_animations),
                shape_info, Transition(slide), has_slide_animations,
                layout_has_animations)

\* the rest of a pass once the details list is complete
PassRecord(n, slide, animations, shape_info, has_slide_animations, layout_has_animations, animation_details) ==
    SlideRecord(n, get_slide_title(slide.shapes), animations, animation_details,
                AnimationSummary(animation_details, layout_has_animations,
                                 has_slide_animations),
                shape_info, Transition(slide), has_slide_animations,
                layout_has_animations)

\* the pass from the loop over the slide's own effects on: the exception that
\* loop raised, or the record
PassDetails(d, n, animations, shape_info, has_slide_animations, layout_has_animations, layout_idx, direct) ==
    IF "raise" \in DOMAIN direct THEN direct
    ELSE [value |->
             PassRecord(n, d.slides[n], animations, shape_info, has_slide_animations,
                        layout_has_animations,
                        direct.value
                        \o LayoutDetails(d, animations, layout_has_animations,
                                         layout_idx, shape_info))]

\* has_direct_animations: the part slide<n>.xml, when the container has one
HasDirectAnimations(d, n) ==
    n \in SlidePartNumbers(d) /\ has_animations_in_xml(SlidePart(d, n).xml)

\* the pass once the slide's effects, shapes and layout number are read
PassWith(d, index, n, animations, shape_info, layout_idx) ==
    PassDetails(d, n, animations, shape_info,
                Len(animations) > 0 \/ HasDirectAnimations(d, n),
                layout_idx # None /\ ("layout_" \o layout_idx[1]) \in index,
                layout_idx,
                DirectDetails(animations, shape_info))

\* one pass of the loop over prs.slides, for the slide at ordinal n: the record,
\* or the exception that leaves the loop
SlidePass(d, index, n) ==
    PassWith(d, index, n, extract_animation_info(d.slides[n].xml),
             ShapeInfo(d.slides[n].shapes), get_slide_layout_info(n, d).layout_idx)

\* ------------------------------------------------- timing trees read

\* <p:sld> with a common slide data element and the given further children
Sld(kids) == El("p:sld", <<>>, <<El("p:cSld", <<>>, <<>>)>> \o kids)

\* <p:timing><p:tnLst> with the given parallel groups
Timing(pars) == El("p:timing", <<>>, <<El("p:tnLst", <<>>, pars)>>)

\* a behaviour's common part: its own time node and its target shape
CBhvr(spid, tx) ==
    El("p:cBhvr", <<>>,
       <<El("p:cTn", <<Attr("dur", "1")>>, <<>>),
         El("p:tgtEl", <<>>, <<El("p:spTgt", <<Attr("spid", spid)>>, tx)>>)>>)

AnimEffect(attrs, spid) == El("p:animEffect", attrs, <<CBhvr(spid, <<>>)>>)
SetBhvr(spid) == El("p:set", <<>>, <<CBhvr(spid, <<>>)>>)

\* <p:stCondLst> with one condition
StCondLst(condAttrs, condKids) ==
    El("p:stCondLst", <<>>, <<El("p:cond", condAttrs, condKids)>>)

\* a parallel group holding one time node with the given children
Par(ctnAttrs, ctnKids) == El("p:par", <<>>, <<El("p:cTn", ctnAttrs, ctnKids)>>)

\* an effect: a parallel group whose time node lists conditions and behaviours
EffectPar(ctnAttrs, conds, behaviours) ==
    Par(ctnAttrs, conds \o <<El("p:childTnLst", <<>>, behaviours)>>)

\* a sequence: a parallel group whose time node lists effects
SeqPar(ctnAttrs, effects) == Par(ctnAttrs, <<El("p:childTnLst", <<>>, effects)>>)

FadeIn == <<Attr("transition", "in"), Attr("filter", "fade")>>

\* a paragraph range of the target shape
TxEl(st, end) ==
    <<El("p:txEl", <<>>, <<El("p:pRg", <<Attr("st", st), Attr("end", end)>>, <<>>)>>)>>

\* a colour change to the given colour
AnimClr(val, spid) ==
    El("p:animClr", <<>>,
       <<CBhvr(spid, <<>>),
         El("p:to", <<>>, <<El("a:srgbClr", <<Attr("val", val)>>, <<>>)>>)>>)

\* the slide XML whose timing tree lists these sequences
SlideOf(seqs) == Sld(<<Timing(seqs)>>)

\* ------------------------------------------------- a function alone

\* the variables of a run of extract_slide_animations, while none is made
NoRun ==
    /\ doc = None
    /\ slide_filter = None
    /\ animations_by_layout = {}
    /\ i = 0
    /\ animation_data = <<>>
    /\ result = None

UnchangedRun == UNCHANGED <<doc, slide_filter, animations_by_layout, i,
                            animation_data, result>>

\* ----------------------------- extract_animation_info on timing trees

\* the sequences a timing tree of the walk checks is made of: with and
\* without identifiers, with an empty identifier, with no effect, with no
\* time node, with an effect that holds a parallel group of its own, with
\* effects whose time nodes have repetition, reversal and node type, with no
\* child list, and with effects that have no time node or no target element
SeqChoices ==
    { SeqPar(<<Attr("id", "2")>>,
             <<EffectPar(<<Attr("id", "3"), Attr("dur", "500")>>, <<>>,
                         <<AnimEffect(FadeIn, "4")>>)>>),
      SeqPar(<<>>,
             <<EffectPar(<<>>, <<>>, <<AnimEffect(FadeIn, "4")>>),
               EffectPar(<<Attr("id", "6")>>, <<>>, <<SetBhvr("5")>>)>>),
      SeqPar(<<Attr("id", "")>>,
             <<EffectPar(<<Attr("id", "")>>, <<>>, <<SetBhvr("4")>>)>>),
      SeqPar(<<Attr("id", "9")>>, <<>>),
      El("p:par", <<>>, <<>>),
      SeqPar(<<Attr("id", "20"), Attr("nodeType", "mainSeq")>>,
             <<Par(<<Attr("id", "21")>>,
                   <<El("p:childTnLst", <<>>,
                        <<EffectPar(<<Attr("id", "22")>>, <<>>,
                                    <<AnimEffect(FadeIn, "7")>>)>>)>>),
               EffectPar(<<Attr("id", "23")>>, <<>>, <<SetBhvr("8")>>)>>),
      SeqPar(<<Attr("id", "30"), Attr("nodeType", "mainSeq")>>,
             <<EffectPar(<<Attr("id", "31"), Attr("repeatCount", "indefinite"),
                           Attr("autoRev", "1"), Attr("nodeType", "clickEffect")>>,
                         <<>>, <<AnimEffect(FadeIn, "4")>>),
               EffectPar(<<Attr("id", "32"), Attr("nodeType", "withEffect")>>, <<>>,
                         <<SetBhvr("5")>>)>>),
      Par(<<Attr("id", "40")>>, <<>>),
      SeqPar(<<Attr("id", "41")>>,
             <<El("p:par", <<>>, <<>>),
               Par(<<Attr("id", "42")>>, <<>>),
               EffectPar(<<>>, <<>>, <<SetBhvr("5")>>)>>) }

MaxSeqs == 2

RECURSIVE SeqsUpTo(_)
\* the lists of at most n sequences
SeqsUpTo(n) ==
    IF n = 0 THEN {<<>>}
    ELSE SeqsUpTo(n - 1)
         \cup {<<s>> \o l : s \in SeqChoices,
                            l \in {x \in SeqsUpTo(n - 1) : Len(x) = n - 1}}

\* the list with the sequences at positions k and k + 1 exchanged
Swapped(seqs, k) ==
    [m \in 1..Len(seqs) |-> IF m = k THEN seqs[k + 1]
                            ELSE IF m = k + 1 THEN seqs[k] ELSE seqs[m]]

\* the slide XML read: the timing tree of the sequences, or a slide with no
\* timing root, or one whose timing root has no list
WalkedSlide(a) ==
    CASE a.root = "full" -> SlideOf(a.seqs)
      [] a.root = "no_timing" -> Sld(<<>>)
      [] a.root = "no_list" -> Sld(<<El("p:timing", <<>>, <<>>)>>)

InitWalk ==
    /\ NoRun
    /\ arg \in {[seqs |-> l, swapped |-> 0, root |-> "full"] : l \in SeqsUpTo(MaxSeqs)}
              \cup {[seqs |-> <<>>, swapped |-> 0, root |-> r] :
                       r \in {"no_timing", "no_list"}}
    /\ pc = "call"
    /\ run = 1
    /\ first_result = None
    /\ ret = None

\* extract_animation_info on the slide made of the sequences of arg
CallExtract ==
    /\ pc = "call"
    /\ ret' = extract_animation_info(WalkedSlide(arg))
    /\ pc' = "returned"
    /\ UNCHANGED <<arg, run, first_result>>
    /\ UnchangedRun

\* the same document with two neighbouring sequences exchanged, read again
PermuteXml ==
    /\ pc = "returned"
    /\ run = 1
    /\ \E k \in 1..(Len(arg.seqs) - 1) :
           arg' = [seqs |-> Swapped(arg.seqs, k), swapped |-> k, root |-> arg.root]
    /\ first_result' = ret
    /\ run' = 2
    /\ pc' = "call"
    /\ UNCHANGED ret
    /\ UnchangedRun

NextWalk == CallExtract \/ PermuteXml

SpecWalk == InitWalk /\ [][NextWalk]_vars

\* ------------------------- one effect, extracted and then described

\* the values the dur attribute of the effect's time node is given; None: absent
DurTokens ==
    {None, Some("500"), Some("0"), Some("1500"), Some("999"), Some("indefinite"),
     Some(""), Some("-5"), Some("1.5")}

\* the values the delay attribute of the effect's condition is given; None: absent
DelayTokens ==
    {None, Some("0"), Some("250"), Some("2000"), Some("indefinite"), Some(""),
     Some("-5"), Some("1e3")}

OptAttr(name, token) == IF token = None THEN <<>> ELSE <<Attr(name, token[1])>>

\* the values the evt attribute of the condition is given; None: absent
EvtTokens == {None, Some("onBegin"), Some("onClick"), Some("onEnd")}

\* the values of the val attribute of a timing node nested in the condition;
\* None: no such node
TnTokens == {None, Some("indefinite"), Some("0")}

\* the children of the condition: the nested timing node, when it has one
TnNode(token) == IF token = None THEN <<>> ELSE <<El("p:tn", <<Attr("val", token[1])>>, <<>>)>>

\* the slide with one sequence of one fade whose time node has that duration
\* and whose condition list, when it has one, holds a condition with that
\* event, that delay and that nested timing node
EffectSlide(a) ==
    SlideOf(<<SeqPar(<<Attr("id", "2")>>,
                     <<EffectPar(<<Attr("id", "3")>> \o OptAttr("dur", a.dur),
                                 IF a.cond
                                 THEN <<StCondLst(OptAttr("evt", a.evt)
                                                  \o OptAttr("delay", a.delay),
                                                  TnNode(a.tn))>>
                                 ELSE <<>>,
                                 <<AnimEffect(FadeIn, "4")>>)>>)>>)

InitEffect ==
    /\ NoRun
    /\ arg \in {a \in [dur : DurTokens, delay : DelayTokens, cond : BOOLEAN,
                        evt : EvtTokens, tn : TnTokens] :
                   ~a.cond => (a.delay = None /\ a.evt = None /\ a.tn = None)}
    /\ pc = "call"
    /\ run = 1
    /\ first_result = None
    /\ ret = None

\* extract_animation_info on the slide of arg
ExtractEffect ==
    /\ pc = "call"
    /\ ret' = [animations |-> extract_animation_info(EffectSlide(arg))]
    /\ pc' = "extracted"
    /\ UNCHANGED <<arg, run, first_result>>
    /\ UnchangedRun

\* create_animation_description on the effect extracted, with no shape known
DescribeEffect ==
    /\ pc = "extracted"
    /\ ret' = [animations |-> ret.animations,
               description |->
                   create_animation_description(ret.animations[1], <<>>)]
    /\ pc' = "described"
    /\ UNCHANGED <<arg, run, first_result>>
    /\ UnchangedRun

NextEffect == ExtractEffect \/ DescribeEffect

SpecEffect == InitEffect /\ [][NextEffect]_vars

\* ------------------ one effect container with several behaviour nodes

\* how a behaviour node is present in the effect's container: not at all, as
\* an empty element, with its common part only, or with everything it can have
NodeKinds == {"absent", "childless", "partial", "full"}

WipeOut == <<Attr("transition", "out"), Attr("filter", "wipe(left)")>>

AnimEffectNode(kind) ==
    CASE kind = "absent" -> <<>>
      [] kind = "childless" -> <<El("p:animEffect", WipeOut, <<>>)>>
      [] kind = "partial" -> <<El("p:animEffect", <<>>, <<CBhvr("4", <<>>)>>)>>
      [] kind = "full" -> <<El("p:animEffect", WipeOut, <<CBhvr("4", <<>>)>>)>>

AnimClrNode(kind) ==
    CASE kind = "absent" -> <<>>
      [] kind = "childless" -> <<El("p:animClr", <<>>, <<>>)>>
      [] kind = "partial" -> <<El("p:animClr", <<>>, <<CBhvr("4", <<>>)>>)>>
      [] kind = "full" -> <<AnimClr("FF0000", "4")>>

AnimMotionNode(kind) ==
    CASE kind = "absent" -> <<>>
      [] kind = "childless" -> <<El("p:animMotion", <<Attr("path", "M 0 0 L 1 1")>>, <<>>)>>
      [] kind = "partial" -> <<El("p:animMotion", <<>>, <<CBhvr("4", <<>>)>>)>>
      [] kind = "full" ->
             <<El("p:animMotion", <<Attr("path", "M 0 0 L 1 1")>>, <<CBhvr("4", <<>>)>>)>>

AnimScaleNode(kind) ==
    CASE kind = "absent" -> <<>>
      [] kind = "childless" -> <<El("p:animScale", <<>>, <<>>)>>
      [] kind = "partial" -> <<El("p:animScale", <<>>, <<CBhvr("4", <<>>)>>)>>
      [] kind = "full" ->
             <<El("p:animScale", <<>>,
                  <<CBhvr("4", <<>>),
                    El("p:by", <<Attr("x", "150000"), Attr("y", "50000")>>, <<>>)>>)>>

\* the slide with one sequence of one effect whose container holds a set
\* behaviour on shape 4 and the behaviour nodes of a
ClassifiedSlide(a) ==
    SlideOf(<<SeqPar(<<Attr("id", "2")>>,
                     <<EffectPar(<<Attr("id", "3"), Attr("dur", "500")>>, <<>>,
                                 <<SetBhvr("4")>> \o AnimEffectNode(a.effect)
                                 \o AnimClrNode(a.clr) \o AnimMotionNode(a.motion)
                                 \o AnimScaleNode(a.scale))>>)>>)

InitClassify ==
    /\ NoRun
    /\ arg \in [effect : NodeKinds, clr : NodeKinds, motion : NodeKinds, scale : NodeKinds]
    /\ pc = "call"
    /\ run = 1
    /\ first_result = None
    /\ ret = None

\* extract_animation_info on the slide of arg
ExtractClassified ==
    /\ pc = "call"
    /\ ret' = [animations |-> extract_animation_info(ClassifiedSlide(arg))]
    /\ pc' = "extracted"
    /\ UNCHANGED <<arg, run, first_result>>
    /\ UnchangedRun

\* create_animation_description on the effect extracted, with no shape known
DescribeClassified ==
    /\ pc = "extracted"
    /\ ret' = [animations |-> ret.animations,
               description |->
                   create_animation_description(ret.animations[1], <<>>)]
    /\ pc' = "described"
    /\ UNCHANGED <<arg, run, first_result>>
    /\ UnchangedRun

NextClassify == ExtractClassified \/ DescribeClassified

SpecClassify == InitClassify /\ [][NextClassify]_vars

\* ------------------------- one effect on a target of several forms

\* the values the st and end attributes of a paragraph range are given;
\* None: absent
RangeTokens == {None, Some("0"), Some("2"), Some("5")}

\* the target element of the effect: with no shape target, with a shape target
\* that has no spid, with a shape target, with a character range of its text,
\* and with a paragraph range of its text
TargetChoices ==
    {[form |-> f, st |-> None, end |-> None] :
        f \in {"no_shape", "no_spid", "shape", "chars"}}
    \cup {[form |-> "range", st |-> st, end |-> end] : st, end \in RangeTokens}

TextRange(tag, c) ==
    <<El("p:txEl", <<>>, <<El(tag, OptAttr("st", c.st) \o OptAttr("end", c.end), <<>>)>>)>>

TgtEl(c) ==
    CASE c.form = "no_shape" -> El("p:tgtEl", <<>>, <<El("p:sldTgt", <<>>, <<>>)>>)
      [] c.form = "no_spid" -> El("p:tgtEl", <<>>, <<El("p:spTgt", <<>>, <<>>)>>)
      [] c.form = "shape" -> El("p:tgtEl", <<>>, <<El("p:spTgt", <<Attr("spid", "4")>>, <<>>)>>)
      [] c.form = "chars" ->
             El("p:tgtEl", <<>>,
                <<El("p:spTgt", <<Attr("spid", "4")>>, TextRange("p:charRg", c))>>)
      [] c.form = "range" ->
             El("p:tgtEl", <<>>,
                <<El("p:spTgt", <<Attr("spid", "4")>>, TextRange("p:pRg", c))>>)

\* the behaviours the effect is given: a set, a fade and a scale
BehaviourKinds == {"set", "fade", "scale"}

CBhvrOn(tgt_el) == El("p:cBhvr", <<>>, <<El("p:cTn", <<Attr("dur", "1")>>, <<>>), tgt_el>>)

Behaviour(kind, tgt_el) ==
    CASE kind = "set" -> El("p:set", <<>>, <<CBhvrOn(tgt_el)>>)
      [] kind = "fade" -> El("p:animEffect", FadeIn, <<CBhvrOn(tgt_el)>>)
      [] kind = "scale" ->
             El("p:animScale", <<>>,
                <<CBhvrOn(tgt_el),
                  El("p:by", <<Attr("x", "150000"), Attr("y", "50000")>>, <<>>)>>)

\* the slide with one sequence of one effect: that behaviour on that target
TargetedSlide(a) ==
    SlideOf(<<SeqPar(<<Attr("id", "2")>>,
                     <<EffectPar(<<Attr("id", "3"), Attr("dur", "500")>>, <<>>,
                                 <<Behaviour(a.kind, TgtEl(a.tgt))>>)>>)>>)

InitTarget ==
    /\ NoRun
    /\ arg \in [kind : BehaviourKinds, tgt : TargetChoices]
    /\ pc = "call"
    /\ run = 1
    /\ first_result = None
    /\ ret = None

\* extract_animation_info on the slide of arg
ExtractTargeted ==
    /\ pc = "call"
    /\ ret' = [animations |-> extract_animation_info(TargetedSlide(arg))]
    /\ pc' = "extracted"
    /\ UNCHANGED <<arg, run, first_result>>
    /\ UnchangedRun

\* create_animation_description on the effect extracted, with no shape known
DescribeTargeted ==
    /\ pc = "extracted"
    /\ ret' = [animations |-> ret.animations,
               description |->
                   create_animation_description(ret.animations[1], <<>>)]
    /\ pc' = "described"
    /\ UNCHANGED <<arg, run, first_result>>
    /\ UnchangedRun

NextTarget == ExtractTargeted \/ DescribeTargeted

SpecTarget == InitTarget /\ [][NextTarget]_vars

\* --------------------- create_animation_description on effect records

\* delays and durations in milliseconds: 0, below, at and above one second.
\* None lies halfway between two tenths of a second, except 1250 and 1750,
\* whose quotients are binary fractions.
Millis == {0, 1, 500, 999, 1000, 1001, 1049, 1051, 1250, 1500, 1750, 1949, 2000, 59999}

\* type, subtype and direction of the effects described
EffectKinds ==
    { [effect_type |-> "in", effect_subtype |-> Some("fade"), effect_direction |-> None],
      [effect_type |-> "in", effect_subtype |-> Some("fly"),
       effect_direction |-> Some("fromLeft")],
      [effect_type |-> "in", effect_subtype |-> Some("fade"),
       effect_direction |-> Some("horizontal")],
      [effect_type |-> "emphasis", effect_subtype |-> Some("grow/shrink"),
       effect_direction |-> Some("scale_x150000_y50000")],
      [effect_type |-> "appear", effect_subtype |-> None, effect_direction |-> None] }

\* the values of repeat_count: a single run, a count, and no end
RepeatCounts == {"1", "3", "indefinite"}

EffectRecords ==
    {AnimationOf("2", "3", [shape_id |-> "4", build_level |-> build_level], kind,
                 [start_condition |-> "on_click", delay_ms |-> delay],
                 duration, "mainSeq", repeat_count, auto_reverse) :
        kind \in EffectKinds,
        build_level \in {None, Some("paragraph_0-1")},
        delay \in Millis,
        duration \in {IntVal(m) : m \in Millis} \cup {StrVal("unknown")},
        repeat_count \in RepeatCounts,
        auto_reverse \in BOOLEAN}

ShapeTables ==
    {<<>>, [id \in {"4"} |-> [type |-> "TEXT_BOX (17)", text |-> "Agenda"]]}

InitDesc ==
    /\ NoRun
    /\ arg \in [animation : EffectRecords, shape_info : ShapeTables]
    /\ pc = "call"
    /\ run = 1
    /\ first_result = None
    /\ ret = None

\* create_animation_description on the record and the shape table of arg
Describe ==
    /\ pc = "call"
    /\ ret' = create_animation_description(arg.animation, arg.shape_info)
    /\ pc' = "returned"
    /\ UNCHANGED <<arg, run, first_result>>
    /\ UnchangedRun

NextDesc == Describe

SpecDesc == InitDesc /\ [][NextDesc]_vars

\* ----------------------------------------------------- the documents

TitleShape ==
    [shape_id |-> 2, shape_type |-> "PLACEHOLDER (14)", text |-> " Hello ",
     has_text_frame |-> TRUE]

PictureShape ==
    [shape_id |-> 4, shape_type |-> "PICTURE (13)", text |-> "", has_text_frame |-> FALSE]

LayoutTarget(idx) == "../slideLayouts/slideLayout" \o idx \o ".xml"
MasterTarget(idx) == "../slideMasters/slideMaster" \o idx \o ".xml"

NoTimingXml == Sld(<<>>)

OneFadeXml ==
    SlideOf(<<SeqPar(<<Attr("id", "2")>>,
                     <<EffectPar(<<Attr("id", "3"), Attr("dur", "500")>>,
                                 <<StCondLst(<<Attr("delay", "indefinite")>>, <<>>)>>,
                                 <<AnimEffect(FadeIn, "2")>>)>>)>>)

\* a timing tree with a parallel group and no effect in it
NoEffectXml == SlideOf(<<SeqPar(<<Attr("id", "9")>>, <<>>)>>)

\* an effect on the first paragraph of shape 2
ParagraphXml ==
    SlideOf(<<SeqPar(<<Attr("id", "2")>>,
                     <<EffectPar(<<Attr("id", "3")>>, <<>>,
                                 <<El("p:animEffect", FadeIn,
                                      <<CBhvr("2", TxEl("0", "0"))>>)>>)>>)>>)

OneColorXml ==
    SlideOf(<<SeqPar(<<Attr("id", "5")>>,
                     <<EffectPar(<<Attr("id", "6"), Attr("dur", "2000")>>, <<>>,
                                 <<AnimClr("FF0000", "2")>>)>>)>>)

\* a fade, an effect on a paragraph, an appearance, in two sequences
MixedXml ==
    SlideOf(<<SeqPar(<<Attr("id", "2")>>,
                     <<EffectPar(<<Attr("id", "3"), Attr("dur", "1500")>>, <<>>,
                                 <<AnimEffect(FadeIn, "4")>>),
                       EffectPar(<<Attr("id", "5")>>, <<>>,
                                 <<El("p:animEffect", FadeIn,
                                      <<CBhvr("2", TxEl("0", "1"))>>)>>)>>),
              SeqPar(<<Attr("id", "7")>>,
                     <<EffectPar(<<Attr("id", "8")>>, <<>>, <<SetBhvr("2")>>)>>)>>)

\* a fade in one sequence, an appearance and a colour change in another
TwoSequencesXml ==
    SlideOf(<<SeqPar(<<Attr("id", "2")>>,
                     <<EffectPar(<<Attr("id", "3"), Attr("dur", "500")>>, <<>>,
                                 <<AnimEffect(FadeIn, "2")>>)>>),
              SeqPar(<<Attr("id", "7")>>,
                     <<EffectPar(<<Attr("id", "8")>>, <<>>, <<SetBhvr("4")>>),
                       EffectPar(<<Attr("id", "9"), Attr("dur", "2000")>>, <<>>,
                                 <<AnimClr("00FF00", "4")>>)>>)>>)

\* what a slide object holds besides the number of its part
SlideChoices ==
    { [xml |-> NoTimingXml, shapes |-> <<TitleShape>>, rels |-> Some(<<LayoutTarget("1")>>)],
      [xml |-> OneFadeXml, shapes |-> <<TitleShape, PictureShape>>,
       rels |-> Some(<<LayoutTarget("1")>>)],
      [xml |-> NoTimingXml, shapes |-> <<>>, rels |-> Some(<<LayoutTarget("2")>>)],
      [xml |-> NoEffectXml, shapes |-> <<PictureShape>>,
       rels |-> Some(<<"../media/image1.png", LayoutTarget("2")>>)],
      [xml |-> ParagraphXml, shapes |-> <<TitleShape>>, rels |-> Some(<<LayoutTarget("2")>>)],
      [xml |-> MixedXml, shapes |-> <<TitleShape>>, rels |-> None],
      [xml |-> TwoSequencesXml, shapes |-> <<TitleShape, PictureShape>>,
       rels |-> Some(<<LayoutTarget("1")>>)] }

LayoutOf(idx, xml) == [idx |-> idx, xml |-> xml, rels |-> Some(<<MasterTarget("1")>>)]
MasterOf(idx, xml) == [idx |-> idx, xml |-> xml]

\* the layout and master parts of a container
LayoutChoices ==
    { [layouts |-> <<LayoutOf("1", NoTimingXml), LayoutOf("2", NoTimingXml)>>,
       masters |-> <<MasterOf("1", NoTimingXml)>>],
      [layouts |-> <<LayoutOf("1", OneColorXml), LayoutOf("2", NoTimingXml)>>,
       masters |-> <<MasterOf("1", OneFadeXml)>>],
      [layouts |-> <<LayoutOf("1", NoEffectXml), LayoutOf("2", MixedXml)>>,
       masters |-> <<MasterOf("1", NoTimingXml)>>],
      [layouts |-> <<LayoutOf("1", MixedXml), LayoutOf("2", OneColorXml)>>,
       masters |-> <<MasterOf("1", NoTimingXml)>>] }

\* a part of the archive that no relationship names, so that opening the
\* presentation does not read it, and that is no well-formed XML
StrayLayout(idx) == [idx |-> idx, xml |-> Unparsable, rels |-> None]
StrayMaster(idx) == [idx |-> idx, xml |-> Unparsable]

\* layout and master parts with one part that fails to parse: first, in the
\* middle, last, and among the masters
StrayPartChoices ==
    { [layouts |-> <<StrayLayout("3"), LayoutOf("1", OneColorXml),
                     LayoutOf("2", NoTimingXml)>>,
       masters |-> <<MasterOf("1", NoTimingXml)>>],
      [layouts |-> <<LayoutOf("1", OneColorXml), StrayLayout("3"),
                     LayoutOf("2", TwoSequencesXml)>>,
       masters |-> <<MasterOf("1", OneFadeXml)>>],
      [layouts |-> <<LayoutOf("1", OneColorXml), LayoutOf("2", NoTimingXml),
                     StrayLayout("3")>>,
       masters |-> <<MasterOf("1", NoTimingXml)>>],
      [layouts |-> <<LayoutOf("1", OneColorXml), LayoutOf("2", NoTimingXml)>>,
       masters |-> <<MasterOf("1", OneFadeXml), StrayMaster("2")>>] }

\* the slides of the containers that hold such a part: no effect of their own
StraySlideChoices == {c \in SlideChoices : c.xml \in {NoTimingXml, NoEffectXml}}

NumSlides == 2

\* the numbers the slide parts can have, in presentation order: the order
\* itself and its rotations
Orders(n) == {[k \in 1..n |-> ((k + r - 1) % n) + 1] : r \in 0..(n - 1)}

Documents ==
    {[openable |-> TRUE,
      slides |-> [k \in 1..NumSlides |-> [part |-> order[k]] @@ content[k]],
      layouts |-> parts.layouts,
      masters |-> parts.masters] :
        content \in [1..NumSlides -> SlideChoices],
        order \in Orders(NumSlides),
        parts \in LayoutChoices}

\* containers with a part that fails to parse
StrayPartDocuments ==
    {[openable |-> TRUE,
      slides |-> [k \in 1..NumSlides |-> [part |-> k] @@ content[k]],
      layouts |-> parts.layouts,
      masters |-> parts.masters] :
        content \in [1..NumSlides -> StraySlideChoices],
        parts \in StrayPartChoices}

\* a file that is no presentation
BrokenDocument ==
    [openable |-> FALSE, slides |-> <<>>, layouts |-> <<>>, masters |-> <<>>]

\* -------------------------------------- extract_slide_animations runs

NotReturned == [state |-> "running"]
Returned(v) == [state |-> "returned", value |-> v]
ReturnedNone == [state |-> "returned_none"]
Raised(e) == [state |-> "raised", error |-> e]

\* the slide_filter arguments of every container: None and one slide
SlideFilters == {None, Some({2})}

\* further slide_filter arguments: the empty set, and a set with an ordinal
\* past the last slide
FurtherFilters == {Some({}), Some({1, NumSlides + 1})}

\* the containers called with the further filters: slide parts numbered in
\* presentation order, a master with a fade
FilterDocuments ==
    {d \in Documents : /\ d.masters = <<MasterOf("1", OneFadeXml)>>
                       /\ \A k \in DOMAIN d.slides : d.slides[k].part = k}

Init ==
    /\ \/ /\ doc \in Documents \cup StrayPartDocuments \cup {BrokenDocument}
          /\ slide_filter \in SlideFilters
       \/ /\ doc \in FilterDocuments
          /\ slide_filter \in FurtherFilters
    /\ pc = "start"
    /\ run = 1
    /\ animations_by_layout = {}
    /\ i = 0
    /\ animation_data = <<>>
    /\ result = NotReturned
    /\ first_result = None
    /\ arg = None
    /\ ret = None

\* prs = Presentation(pptx_path) succeeds
OpenPresentation ==
    /\ pc = "start"
    /\ doc.openable
    /\ pc' = "index"
    /\ UNCHANGED <<doc, slide_filter, run, animations_by_layout, i, animation_data,
                   result, first_result, arg, ret>>

\* a faulty variant of OpenFails: an empty result instead of the failure value
OpenFailsReturnsEmpty ==
    /\ pc = "start"
    /\ ~doc.openable
    /\ result' = Returned(<<>>)
    /\ pc' = "done"
    /\ UNCHANGED <<doc, slide_filter, run, animations_by_layout, i, animation_data,
                   first_result, arg, ret>>

\* prs = Presentation(pptx_path) raises: the call returns None
OpenFails ==
    /\ pc = "start"
    /\ ~doc.openable
    /\ result' = ReturnedNone
    /\ pc' = "done"
    /\ UNCHANGED <<doc, slide_filter, run, animations_by_layout, i, animation_data,
                   first_result, arg, ret>>

\* the layout index is built and the loop over the slides begins
BuildIndex ==
    /\ pc = "index"
    /\ animations_by_layout' = check_slide_master_animations(doc)
    /\ animation_data' = <<>>
    /\ i' = 1
    /\ pc' = "slides"
    /\ UNCHANGED <<doc, slide_filter, run, result, first_result, arg, ret>>

\* slide_filter and i not in slide_filter
Filtered(n) == slide_filter # None /\ slide_filter[1] # {} /\ n \notin slide_filter[1]

\* the slide is not in the filter
SkipSlide ==
    /\ pc = "slides"
    /\ i <= Len(doc.slides)
    /\ Filtered(i)
    /\ i' = i + 1
    /\ UNCHANGED <<doc, slide_filter, pc, run, animations_by_layout, animation_data,
                   result, first_result, arg, ret>>

\* a faulty variant of ProcessSlide: the pass of a slide that has animations
\* adds the entry layout_1 to the index
ProcessSlideFlaggingLayout ==
    /\ pc = "slides"
    /\ i <= Len(doc.slides)
    /\ ~Filtered(i)
    /\ \E pass \in {SlidePass(doc, animations_by_layout, i)} :
           /\ "value" \in DOMAIN pass
           /\ animation_data' = Append(animation_data,
                                       <<"slide_" \o ToString(i), pass.value>>)
           /\ animations_by_layout' =
                  IF pass.value.direct_animations
                  THEN animations_by_layout \cup {"layout_1"}
                  ELSE animations_by_layout
    /\ i' = i + 1
    /\ UNCHANGED <<doc, slide_filter, pc, run, result, first_result, arg, ret>>

\* the slide's record is stored under slide_<i>
ProcessSlide ==
    /\ pc = "slides"
    /\ i <= Len(doc.slides)
    /\ ~Filtered(i)
    /\ \E pass \in {SlidePass(doc, animations_by_layout, i)} :
           /\ "value" \in DOMAIN pass
           /\ animation_data' = Append(animation_data,
                                       <<"slide_" \o ToString(i), pass.value>>)
    /\ i' = i + 1
    /\ UNCHANGED <<doc, slide_filter, pc, run, animations_by_layout, result,
                   first_result, arg, ret>>

\* a description of one of the slide's own effects raises: the call ends with
\* that exception
SlideRaises ==
    /\ pc = "slides"
    /\ i <= Len(doc.slides)
    /\ ~Filtered(i)
    /\ \E pass \in {SlidePass(doc, animations_by_layout, i)} :
           /\ "raise" \in DOMAIN pass
           /\ result' = Raised(pass.raise)
    /\ pc' = "done"
    /\ UNCHANGED <<doc, slide_filter, run, animations_by_layout, i, animation_data,
                   first_result, arg, ret>>

\* return animation_data
Return ==
    /\ pc = "slides"
    /\ i > Len(doc.slides)
    /\ result' = Returned(animation_data)
    /\ pc' = "done"
    /\ UNCHANGED <<doc, slide_filter, run, animations_by_layout, i, animation_data,
                   first_result, arg, ret>>

\* the caller keeps what the call gave and calls again with the same arguments
Rerun ==
    /\ pc = "done"
    /\ run = 1
    /\ first_result' = result
    /\ run' = 2
    /\ pc' = "start"
    /\ animations_by_layout' = {}
    /\ i' = 0
    /\ animation_data' = <<>>
    /\ result' = NotReturned
    /\ UNCHANGED <<doc, slide_filter, arg, ret>>

Next ==
    \/ OpenPresentation
    \/ OpenFails
    \/ BuildIndex
    \/ SkipSlide
    \/ ProcessSlide
    \/ SlideRaises
    \/ Return
    \/ Rerun

Spec == Init /\ [][Next]_vars

\* ------------------------------------------------------- properties

\* the records the running call has stored
Records == {animation_data[k][2] : k \in DOMAIN animation_data}

\* the XML of the slide object a record was built from
SlideXml(r) == doc.slides[r.slide_number].xml

NoTimingTree(xml) == Find(xml, 1, "p:timing") = 0

\* the slide's direct effect list
DirectEffects(r) == extract_animation_info(SlideXml(r))

\* the layout resolved for the slide of a record: the one get_slide_layout_info
\* names for the slide's ordinal, None when it names none
ResolvedLayout(r) == get_slide_layout_info(r.slide_number, doc).layout_idx

\* the resolved layout is flagged in the layout index
LayoutFlagged(r) ==
    /\ ResolvedLayout(r) # None
    /\ ("layout_" \o ResolvedLayout(r)[1]) \in check_slide_master_animations(doc)

NoAnimationsSentence == "This slide has no animations."

\* every field of an effect is carried by the detail built from it
CarriesEffect(detail, effect) ==
    /\ DOMAIN effect \subseteq DOMAIN detail
    /\ \A f \in DOMAIN effect : detail[f] = effect[f]

\* C1 (as stated): for every slide whose XML has no timing tree the record has
\* animations = [], has_animations = false and the fixed summary sentence, and
\* transition "None" for a slide with no shapes, whatever layout the slide uses.
C1_NoTimingWhateverLayout ==
    \A r \in Records :
        NoTimingTree(SlideXml(r)) =>
            /\ r.animations = <<>>
            /\ r.has_animations = FALSE
            /\ r.animation_summary = NoAnimationsSentence
            /\ (doc.slides[r.slide_number].shapes = <<>> => r.transition = "None")

\* C1 (amended): for every slide whose XML has no timing tree the record has
\* animations = [] and, for a slide with no shapes, transition "None";
\* has_animations is false and the summary is the fixed sentence when the
\* layout resolved for the slide is not flagged in the layout index and the part
\* slide<ordinal>.xml has no animation node; has_animations is true when that
\* layout is flagged.
C1_NoTimingUnflaggedLayout ==
    \A r \in Records :
        NoTimingTree(SlideXml(r)) =>
            /\ r.animations = <<>>
            /\ (doc.slides[r.slide_number].shapes = <<>> => r.transition = "None")
            /\ (~LayoutFlagged(r) /\ ~HasDirectAnimations(doc, r.slide_number)) =>
                   /\ r.has_animations = FALSE
                   /\ r.animation_summary = NoAnimationsSentence
            /\ LayoutFlagged(r) => r.has_animations = TRUE

\* C1, a case of it: a slide with no timing tree and no shapes whose layout is not flagged
C1_Witness ==
    \E r \in Records :
        /\ NoTimingTree(SlideXml(r))
        /\ doc.slides[r.slide_number].shapes = <<>>
        /\ ~LayoutFlagged(r)
        /\ ~HasDirectAnimations(doc, r.slide_number)
        /\ r.has_animations = FALSE

\* the details list is the non-empty list of direct effects, each with its
\* description and none with a marker
DetailsAreDirect(animation_details, effects) ==
    effects # <<>> =>
        /\ Len(animation_details) = Len(effects)
        /\ \A k \in DOMAIN animation_details :
               /\ ~IsInherited(animation_details[k])
               /\ CarriesEffect(animation_details[k], effects[k])
               /\ DOMAIN animation_details[k] = DOMAIN effects[k] \cup {"description"}

\* C2: for every slide whose direct effect list has at least one effect, no
\* entry of animation_details carries inherited_from and animation_details has
\* exactly the direct effects, each with its description, also when the layout
\* resolved for the slide is flagged in the layout index.
C2_DirectPrecedence ==
    \A r \in Records : DetailsAreDirect(r.animation_details, DirectEffects(r))

\* C2, a case of it: a slide with effects of its own whose resolved layout is flagged
C2_Witness ==
    \E r \in Records :
        /\ DirectEffects(r) # <<>>
        /\ LayoutFlagged(r)
        /\ r.layout_animations = TRUE
        /\ Len(r.animation_details) > 0

\* the effects of the layout resolved for the slide of a record
LayoutEffects(r) == extract_animation_info(LayoutPart(doc, ResolvedLayout(r)[1]).xml)

\* C3 (as stated): for every slide whose direct effect list is empty and whose
\* resolved layout L is flagged, animation_details is the list of the effects
\* extracted from the XML of layout L, in extraction order, each with
\* inherited_from = "layout_<L>" and a description that starts with the
\* inheritance prefix, and has_animations is true.
C3_InheritedList ==
    \A r \in Records :
        (DirectEffects(r) = <<>> /\ LayoutFlagged(r)) =>
            /\ r.has_animations = TRUE
            /\ Len(r.animation_details) = Len(LayoutEffects(r))
            /\ \A k \in DOMAIN r.animation_details :
                   /\ CarriesEffect(r.animation_details[k], LayoutEffects(r)[k])
                   /\ IsInherited(r.animation_details[k])
                   /\ r.animation_details[k].inherited_from
                          = "layout_" \o ResolvedLayout(r)[1]
                   /\ StartsWith(r.animation_details[k].description, InheritedPrefix)

\* C4: has_animations of a record is true whenever the slide's direct effect
\* list is not empty or the layout resolved for the slide is flagged in the
\* layout index, also when the details list is empty.
C4_FlagFromDirectOrLayout ==
    \A r \in Records :
        (DirectEffects(r) # <<>> \/ LayoutFlagged(r)) => r.has_animations = TRUE

\* C4, a case of it: a record with has_animations true, no detail and a count of 0
C4_Witness ==
    \E r \in Records :
        /\ LayoutFlagged(r)
        /\ r.has_animations = TRUE
        /\ r.animation_details = <<>>
        /\ r.animation_count = 0

\* the returned list is the walk's, and the walk appends in document order:
\* by the position of the sequence's group, then by that of the effect's group
Ordered(w) ==
    \A a, b \in DOMAIN w :
        a < b => \/ w[a].par < w[b].par
                 \/ w[a].par = w[b].par /\ w[a].child_par < w[b].child_par

ReturnedInDocumentOrder ==
    pc = "returned" =>
        /\ ret = Appended(Walk(SlideOf(arg.seqs)))
        /\ Ordered(Walk(SlideOf(arg.seqs)))

\* the number of effects the code returns for a list of sequences
EffectCount(seqs) == Len(extract_animation_info(SlideOf(seqs)))

\* the list l with the block of n1 entries after the first `before` entries
\* and the block of n2 entries that follows it exchanged
SwapBlocks(l, before, n1, n2) ==
    SubSeq(l, 1, before)
    \o SubSeq(l, before + n1 + 1, before + n1 + n2)
    \o SubSeq(l, before + 1, before + n1)
    \o SubSeq(l, before + n1 + n2 + 1, Len(l))

\* the list of effects that exchanging the sequences k and k + 1 of the list
\* `old` makes of the list l of the effects of `old`
Permuted(l, old, k) ==
    SwapBlocks(l, EffectCount(SubSeq(old, 1, k - 1)), EffectCount(<<old[k]>>),
               EffectCount(<<old[k + 1]>>))

\* the effects with every synthetic sequence identifier replaced by its prefix
SyntheticErased(l) ==
    [k \in DOMAIN l |->
        IF StartsWith(l[k].sequence_id, "unknown_")
        THEN [l[k] EXCEPT !.sequence_id = "unknown_"] ELSE l[k]]

\* C5 (as stated): the list returned by extract_animation_info is in document
\* order, by sequence and then by effect within the sequence, and permuting
\* the sequences in the XML permutes the emitted effects in the same way.
C5_OrderAndPermutation ==
    /\ ReturnedInDocumentOrder
    /\ (pc = "returned" /\ run = 2) =>
           ret = Permuted(first_result, Swapped(arg.seqs, arg.swapped), arg.swapped)

\* C5 (amended): the list returned by extract_animation_info is in document
\* order, by sequence and then by effect within the sequence; exchanging two
\* neighbouring sequences of the timing list exchanges their blocks of effects
\* in the list, every field unchanged except a synthetic sequence_id
\* (unknown_<index>), which follows the position of its sequence.
C5_OrderAndPermutationOfIdentified ==
    /\ ReturnedInDocumentOrder
    /\ (pc = "returned" /\ run = 2) =>
           SyntheticErased(ret)
               = Permuted(SyntheticErased(first_result),
                          Swapped(arg.seqs, arg.swapped), arg.swapped)

\* C5, a case of it: two sequences with effects exchanged, one of them with no identifier
C5_Witness ==
    /\ pc = "returned"
    /\ run = 2
    /\ Len(ret) >= 2
    /\ ret # first_result
    /\ \E k \in DOMAIN ret : StartsWith(ret[k].sequence_id, "unknown_")
    /\ \E k \in DOMAIN ret : ~StartsWith(ret[k].sequence_id, "unknown_")

\* C6 (as stated): for every effect emitted by extract_animation_info,
\* sequence_id and effect_id are strings that are not empty.
C6_IdsNotEmpty ==
    pc = "returned" =>
        \A k \in DOMAIN ret : ret[k].sequence_id # "" /\ ret[k].effect_id # ""

ScenarioA(animation) ==
    /\ animation.effect_type = "in"
    /\ animation.effect_subtype = Some("fade")
    /\ animation.start_condition = "on_click"
    /\ animation.duration_ms = IntVal(500)

\* the action sentence of the text ends with `action` and the timing clause
\* that follows it starts with the on-click sentence
FadesThenOnClick(text) ==
    /\ Contains(text, " fades into view.")
    /\ StartsWith(SubSeq(text, IndexFrom(text, " fades into view.", 1)
                                   + Len(" fades into view."), Len(text)),
                  " This animation starts when the presenter clicks")

\* C8 (as stated): for an effect of Scenario A the description has an action
\* sentence that ends with "fades into view." and a timing clause that starts
\* with "This animation starts when the presenter clicks" and contains
\* "taking 0.5 seconds to complete."
C8_ScenarioAInSeconds ==
    (pc = "returned" /\ ScenarioA(arg.animation)) =>
        /\ "value" \in DOMAIN ret
        /\ FadesThenOnClick(ret.value)
        /\ Contains(ret.value, "taking 0.5 seconds to complete.")

\* C8 (amended): for an effect of Scenario A with no direction and no
\* paragraph build level the description has an action sentence that ends with
\* "fades into view." and a timing clause that starts with "This animation
\* starts when the presenter clicks" and contains "taking 500 milliseconds to
\* complete."
C8_ScenarioAInMilliseconds ==
    (/\ pc = "returned"
     /\ ScenarioA(arg.animation)
     /\ arg.animation.effect_direction = None
     /\ arg.animation.build_level = None) =>
        /\ "value" \in DOMAIN ret
        /\ FadesThenOnClick(ret.value)
        /\ Contains(ret.value, "taking 500 milliseconds to complete.")
        /\ ~Contains(ret.value, " seconds to complete")

\* C8, a case of it: the effect of Scenario A on a known text box, described
C8_Witness ==
    /\ pc = "returned"
    /\ ScenarioA(arg.animation)
    /\ arg.animation.effect_direction = None
    /\ arg.animation.build_level = None
    /\ arg.animation.delay_ms = 0
    /\ DOMAIN arg.shape_info # {}
    /\ "value" \in DOMAIN ret

\* t tenths written with one decimal place
OneDecimal(t) == ToString(t \div 10) \o "." \o ToString(t % 10)

\* ms milliseconds in seconds with one decimal place: a tenth nearest to it
InSeconds(ms) ==
    {OneDecimal(t) : t \in {q \in (ms \div 100)..(ms \div 100 + 1) :
                               100 * q - ms \in -50..50}}

\* the clause a duration is rendered as
DurationRendered(ms) ==
    IF ms >= 1000 THEN {"taking " \o s \o " seconds to complete" : s \in InSeconds(ms)}
    ELSE {"taking " \o ToString(ms) \o " milliseconds to complete"}

\* the clause a delay is rendered as
DelayRendered(ms) ==
    IF ms >= 1000 THEN {"with a " \o s \o " second delay" : s \in InSeconds(ms)}
    ELSE {"with a " \o ToString(ms) \o " millisecond delay"}

\* the text has one of the clauses as a sentence of its timing clause
HasClause(text, clauses) == \E s \in clauses : Contains(text, ". " \o s \o ".")

DurationAsRuled(text, duration) ==
    duration # StrVal("unknown") =>
        /\ HasClause(text, DurationRendered(duration.int))
        /\ duration.int >= 1000 <=> Contains(text, " seconds to complete")
        /\ duration.int < 1000 <=> Contains(text, " milliseconds to complete")

DelayAsRuled(text, delay) ==
    /\ HasClause(text, DelayRendered(delay))
    /\ delay >= 1000 <=> Contains(text, " second delay")
    /\ delay < 1000 <=> Contains(text, " millisecond delay")

\* C9 (as stated): in a description a delay and a duration are each rendered
\* in seconds with one decimal place when the value is at least 1000 ms and
\* as a whole number of milliseconds when it is below, for every value that
\* is not negative.
C9_RenderedForEveryValue ==
    (pc = "returned" /\ "value" \in DOMAIN ret) =>
        /\ DurationAsRuled(ret.value, arg.animation.duration_ms)
        /\ DelayAsRuled(ret.value, arg.animation.delay_ms)

\* C9 (amended): in a description a duration that is not negative, and a
\* delay that is positive, are each rendered in seconds with one decimal
\* place when the value is at least 1000 ms and as a whole number of
\* milliseconds when it is below; a delay of 0 ms is not rendered.
C9_RenderedUnlessDelayZero ==
    (pc = "returned" /\ "value" \in DOMAIN ret) =>
        /\ DurationAsRuled(ret.value, arg.animation.duration_ms)
        /\ arg.animation.delay_ms > 0 => DelayAsRuled(ret.value, arg.animation.delay_ms)
        /\ arg.animation.delay_ms = 0 => ~Contains(ret.value, " delay")

\* C9, a case of it: a delay of one second and a duration just below it, described
C9_Witness ==
    /\ pc = "returned"
    /\ "value" \in DOMAIN ret
    /\ arg.animation.delay_ms = 1000
    /\ arg.animation.duration_ms = IntVal(999)

\* the number a token of the timing attributes stands for, -1 when it is none
TokenValue(token) ==
    CASE token = Some("0") -> 0
      [] token = Some("250") -> 250
      [] token = Some("500") -> 500
      [] token = Some("999") -> 999
      [] token = Some("1500") -> 1500
      [] token = Some("2000") -> 2000
      [] OTHER -> -1

\* C10: delay_ms of an emitted effect is an integer that is not negative, the
\* source value when that is a numeric string and 0 otherwise; duration_ms is
\* the integer source value when numeric and "unknown" otherwise, never 0 for
\* a token that is no number; and an "unknown" duration gives no duration
\* clause in the description.
C10_TimingFallbacks ==
    /\ pc \in {"extracted", "described"} =>
           /\ Len(ret.animations) = 1
           /\ ret.animations[1].delay_ms \in Nat
           /\ ret.animations[1].delay_ms
                  = (IF TokenValue(arg.delay) >= 0 THEN TokenValue(arg.delay) ELSE 0)
           /\ ret.animations[1].duration_ms
                  = (IF TokenValue(arg.dur) >= 0 THEN IntVal(TokenValue(arg.dur))
                     ELSE StrVal("unknown"))
    /\ (pc = "described" /\ TokenValue(arg.dur) < 0) =>
           /\ "value" \in DOMAIN ret.description
           /\ ~Contains(ret.description.value, "taking")
           /\ ~Contains(ret.description.value, "to complete")

\* C10, a case of it: an effect whose duration and delay are both the token "indefinite", described
C10_Witness ==
    /\ pc = "described"
    /\ arg.dur = Some("indefinite")
    /\ arg.delay = Some("indefinite")
    /\ ret.animations[1].duration_ms = StrVal("unknown")
    /\ ret.animations[1].delay_ms = 0

\* the text has an occurrence of a and, after it, an occurrence of b
ContainsThen(text, a, b) ==
    /\ Contains(text, a)
    /\ Contains(SubSeq(text, IndexFrom(text, a, 1) + Len(a), Len(text)), b)

\* C11: Scenario D: the description of an effect with repeat_count
\* "indefinite" and auto_reverse true contains "repeating continuously" and,
\* after it, "then reversing back to its original state."; a repeat_count of
\* "1" gives no repetition clause and auto_reverse false no reversal clause.
C11_RepeatAndReverse ==
    (pc = "returned" /\ "value" \in DOMAIN ret) =>
        /\ (arg.animation.repeat_count = "indefinite" /\ arg.animation.auto_reverse) =>
               ContainsThen(ret.value, "repeating continuously",
                            "then reversing back to its original state.")
        /\ arg.animation.repeat_count = "1" => ~Contains(ret.value, "repeating")
        /\ ~arg.animation.auto_reverse => ~Contains(ret.value, "reversing")

\* C11, a case of it: an effect that repeats without end and reverses, described
C11_Witness ==
    /\ pc = "returned"
    /\ arg.animation.repeat_count = "indefinite"
    /\ arg.animation.auto_reverse
    /\ "value" \in DOMAIN ret
    /\ Contains(ret.value, "repeating continuously. then reversing back")

\* the sentences of a summary
CountSentence(n) == "This slide has " \o ToString(n) \o " animation effects."
AllInheritedSentence == "All animations are inherited from the slide layout."
CountsSentence(direct_count, inherited_count) ==
    ToString(direct_count) \o " animations are directly applied and "
    \o ToString(inherited_count) \o " are inherited from the layout."
SingleSequenceSentence == "The animations play in a single sequence."
SequencesSentence(n) == "The animations are organized in " \o ToString(n) \o " sequences."

\* the entries of a record's details list without and with the marker
DirectEntries(r) == {k \in DOMAIN r.animation_details : ~IsInherited(r.animation_details[k])}
InheritedEntries(r) == {k \in DOMAIN r.animation_details : IsInherited(r.animation_details[k])}

\* the distinct sequence identifiers of a record's details list
SequenceIds(r) == {r.animation_details[k].sequence_id : k \in DOMAIN r.animation_details}

\* the parts of the summary that C12 states and the code gives: the count of
\* the entries, the sentence about the sequences, and the fixed sentence
CountAndFlow(r) ==
    /\ r.animation_details = <<>> => r.animation_summary = NoAnimationsSentence
    /\ r.animation_details # <<>> =>
           /\ StartsWith(r.animation_summary, CountSentence(Len(r.animation_details)))
           /\ r.animation_count = Len(r.animation_details)
           /\ Cardinality(SequenceIds(r)) = 1
                  <=> Contains(r.animation_summary, SingleSequenceSentence)
           /\ Cardinality(SequenceIds(r)) # 1
                  <=> Contains(r.animation_summary,
                               SequencesSentence(Cardinality(SequenceIds(r))))

\* C12 (as stated): the summary of a slide with at least one entry in
\* animation_details states the number of entries, has the all-inherited
\* sentence exactly when every entry is inherited, gives the direct and the
\* inherited count when both kinds are present, and reports a single sequence
\* exactly when one distinct sequence_id occurs and the number of distinct
\* sequences otherwise; a slide with no entry gets the fixed sentence.
C12_SummaryByMarkers ==
    \A r \in Records :
        /\ CountAndFlow(r)
        /\ r.animation_details # <<>> =>
               /\ Contains(r.animation_summary, AllInheritedSentence)
                      <=> DirectEntries(r) = {}
               /\ (DirectEntries(r) # {} /\ InheritedEntries(r) # {}) =>
                      Contains(r.animation_summary,
                               CountsSentence(Cardinality(DirectEntries(r)),
                                              Cardinality(InheritedEntries(r))))

\* C12 (amended): the summary of a slide with at least one entry states the
\* number of entries and the sequences as stated; it has the all-inherited
\* sentence exactly when layout_animations is true and direct_animations is
\* false, and then every entry is inherited; it gives the counts of the
\* entries without and with the inherited_from marker exactly when both flags
\* are true, also when one of the counts is 0; entries of both kinds are never
\* in one list; a slide with no entry gets the fixed sentence.
C12_SummaryByFlags ==
    \A r \in Records :
        /\ CountAndFlow(r)
        /\ DirectEntries(r) = {} \/ InheritedEntries(r) = {}
        /\ r.animation_details # <<>> =>
               /\ Contains(r.animation_summary, AllInheritedSentence)
                      <=> (r.layout_animations /\ ~r.direct_animations)
               /\ Contains(r.animation_summary, AllInheritedSentence)
                      => DirectEntries(r) = {}
               /\ Contains(r.animation_summary, " animations are directly applied and ")
                      <=> (r.layout_animations /\ r.direct_animations)
               /\ (r.layout_animations /\ r.direct_animations) =>
                      Contains(r.animation_summary,
                               CountsSentence(Cardinality(DirectEntries(r)),
                                              Cardinality(InheritedEntries(r))))

\* C12, a case of it: three effects of the slide's own in two sequences, on a
\* slide whose layout is flagged
C12_Witness ==
    \E r \in Records :
        /\ Len(r.animation_details) = 3
        /\ Cardinality(SequenceIds(r)) = 2
        /\ r.layout_animations /\ r.direct_animations
        /\ r.animation_summary
               = "This slide has 3 animation effects. 3 animations are directly applied "
                 \o "and 0 are inherited from the layout. "
                 \o "The animations are organized in 2 sequences."

\* the container without the parts that fail to parse
WithoutFailingParts(d) ==
    [d EXCEPT !.layouts = SelectSeq(d.layouts, Parses),
              !.masters = SelectSeq(d.masters, Parses)]

HasFailingPart(d) == ~AllParse(d.layouts) \/ ~AllParse(d.masters)

\* C13 (as stated): when a layout or master part fails to parse, the layout
\* index built is the index of the container without that part, every other
\* part being scanned and flagged, and the run goes on to return its records.
C13_FailingPartIsolated ==
    (HasFailingPart(doc) /\ pc \in {"slides", "done"}) =>
        /\ animations_by_layout = check_slide_master_animations(WithoutFailingParts(doc))
        /\ pc = "done" => result.state = "returned"

\* the ordinals of the slides a call is asked for
SlidesAskedFor == {n \in 1..Len(doc.slides) : ~Filtered(n)}

\* C14 (as stated): no failure other than failing to open the container
\* aborts the run: a call on a presentation that opens returns, and what it
\* returns has a record for every slide asked for, the other slides being
\* processed and emitted whatever failed on one of them.
C14_OnlyOpenFailureAborts ==
    (pc = "done" /\ doc.openable) =>
        /\ result.state = "returned"
        /\ {result.value[k][1] : k \in DOMAIN result.value}
               = {"slide_" \o ToString(n) : n \in SlidesAskedFor}

\* C15: when the presentation cannot be opened the call returns the failure
\* value None and nothing else: no slide record is stored and the layout
\* index is not built, in the first call and in a call made again.
C15_OpenFailureReturnsNone ==
    ~doc.openable =>
        /\ pc \in {"start", "done"}
        /\ animation_data = <<>>
        /\ animations_by_layout = {}
        /\ pc = "done" => result = ReturnedNone
        /\ run = 2 => first_result = ReturnedNone

\* C15, a case of it: the call on a file that is no presentation has returned
C15_Witness ==
    /\ ~doc.openable
    /\ pc = "done"
    /\ result = ReturnedNone
    /\ animation_data = <<>>

\* type, subtype and direction of an emitted effect
Classification(animation) ==
    [effect_type |-> animation.effect_type,
     effect_subtype |-> animation.effect_subtype,
     effect_direction |-> animation.effect_direction]

\* what each branch of the classifier gives for the node it finds
ColorBranch(kind) ==
    [effect_type |-> "emphasis", effect_subtype |-> Some("color"),
     effect_direction |-> IF kind = "full" THEN Some("to_color_FF0000") ELSE None]
MotionBranch(kind) ==
    [effect_type |-> "motion", effect_subtype |-> Some("path"),
     effect_direction |-> IF kind = "full" THEN Some("custom_path") ELSE None]
ScaleBranch(kind) ==
    [effect_type |-> "emphasis", effect_subtype |-> Some("grow/shrink"),
     effect_direction |-> IF kind = "full" THEN Some("scale_x150000_y50000") ELSE None]
AppearDefault == [effect_type |-> "appear", effect_subtype |-> None, effect_direction |-> None]

\* the first branch, in the order colour, motion path, scale, whose node the
\* container has
FirstMatch(a) ==
    IF a.clr # "absent" THEN ColorBranch(a.clr)
    ELSE IF a.motion # "absent" THEN MotionBranch(a.motion)
    ELSE IF a.scale # "absent" THEN ScaleBranch(a.scale)
    ELSE AppearDefault

\* every node the container has, has child elements
NoChildlessNode(a) ==
    "childless" \notin {a.effect, a.clr, a.motion, a.scale}

\* C16 (as stated): first match wins: for an effect with no animEffect node,
\* the first of the colour, motion path and scale nodes that is present decides
\* effect_type, effect_subtype and effect_direction together, also when a
\* later node is present as well.
C16_FirstMatchWins ==
    (pc \in {"extracted", "described"} /\ arg.effect = "absent" /\ NoChildlessNode(arg)) =>
        /\ Len(ret.animations) = 1
        /\ Classification(ret.animations[1]) = FirstMatch(arg)

\* what the animEffect node of that kind says
AnimEffectFields(kind) ==
    IF kind = "partial"
    THEN [effect_type |-> "in", effect_subtype |-> None, effect_direction |-> None]
    ELSE [effect_type |-> "out", effect_subtype |-> Some("wipe"),
          effect_direction |-> Some("left")]

\* C17 (as stated): when the container has an animEffect node, with or
\* without child elements, effect_type is its transition attribute ("in" when
\* absent), the subtype the filter name and the direction the filter
\* parameter, whatever colour, motion path or scale node the container holds.
C17_AnimEffectDecides ==
    (pc \in {"extracted", "described"} /\ arg.effect # "absent") =>
        /\ Len(ret.animations) = 1
        /\ Classification(ret.animations[1]) = AnimEffectFields(arg.effect)

SourceVocabulary == {"in", "out", "emphasis", "motion"}

EntranceWords == {"appears instantly", "enters the slide"}

NoneOfTheNodes(a) ==
    a.effect = "absent" /\ a.clr = "absent" /\ a.motion = "absent" /\ a.scale = "absent"

\* C18 (as stated): effect_type of every emitted effect is one of in, out,
\* emphasis, motion; an effect with none of the four nodes is emitted as an
\* entrance of kind "appear" with no direction, and its description words it
\* as an entrance.
C18_TypeInVocabulary ==
    /\ pc \in {"extracted", "described"} =>
           /\ Len(ret.animations) = 1
           /\ ret.animations[1].effect_type \in SourceVocabulary
           /\ NoneOfTheNodes(arg) =>
                  /\ ret.animations[1].effect_type = "in"
                  /\ ret.animations[1].effect_subtype = Some("appear")
                  /\ ret.animations[1].effect_direction = None
    /\ (pc = "described" /\ NoneOfTheNodes(arg)) =>
           /\ "value" \in DOMAIN ret.description
           /\ \E w \in EntranceWords : Contains(ret.description.value, w)

\* repeat_count, auto_reverse and node_type as the attributes of the time node
\* child_ctn say, with the defaults for an attribute that is absent
OwnAttributes(t, child_ctn) ==
    [repeat_count |-> Get(t, child_ctn, "repeatCount", "1"),
     auto_reverse |-> Get(t, child_ctn, "autoRev", "0") = "1",
     node_type |-> Get(t, child_ctn, "nodeType", "mainSeq")]

EmittedAttributes(animation) ==
    [repeat_count |-> animation.repeat_count,
     auto_reverse |-> animation.auto_reverse,
     node_type |-> animation.node_type]

\* every effect of the walk w of t has the attributes of its own time node
AttributesAreOwn(t, w) ==
    \A k \in DOMAIN w :
        EmittedAttributes(w[k].anim) = OwnAttributes(t, Find(t, w[k].child_par, "p:cTn"))

\* C19 (as stated): repeat_count, auto_reverse and node_type of every emitted
\* effect are the repeatCount, autoRev and nodeType attributes of the effect's
\* own time node, the one that gives effect_id and the duration, with the
\* defaults "1", false and "mainSeq".
C19_AttributesOfOwnContainer ==
    pc = "returned" => AttributesAreOwn(SlideOf(arg.seqs), Walk(SlideOf(arg.seqs)))

\* the groups of the walk w of t are where the walk is said to look: a
\* sequence is a child of the timing list tn_lt, an effect a child of the
\* child list of its sequence's time node, and no group is an effect twice
TopLevelOnly(t, w, tn_lt) ==
    /\ \A k \in DOMAIN w :
           /\ t[w[k].par].d = t[tn_lt].d + 1
           /\ t[w[k].child_par].d = t[w[k].par].d + 3
    /\ \A k, m \in DOMAIN w : w[k].child_par = w[m].child_par => k = m

\* C20 (as stated): only the parallel groups directly in the timing list are
\* sequences and only the parallel groups directly in a sequence's child list
\* are effects, so that no effect container gives more than one record.
C20_WalkStructure ==
    pc = "returned" =>
        TopLevelOnly(SlideOf(arg.seqs), Walk(SlideOf(arg.seqs)),
                     Find(SlideOf(arg.seqs), 1, "p:tnLst"))

\* the tree without the subtree rooted at element n
RemoveSubtree(t, n) == SubSeq(t, 1, n - 1) \o SubSeq(t, LastOf(t, n) + 1, Len(t))

\* a sequence with no time node, or whose time node has no child list
SequenceDeficient(q) ==
    Find(q, 1, "p:cTn") = 0 \/ Find(q, Find(q, 1, "p:cTn"), "p:childTnLst") = 0

\* the parallel groups in the child list of the sequence q that have no time
\* node or no target element
DeficientEffects(q) ==
    {n \in 1..Len(q) : /\ q[n].tag = "p:par"
                       /\ q[n].d = 3
                       /\ (Find(q, n, "p:cTn") = 0 \/ Find(q, n, "p:tgtEl") = 0)}

RECURSIVE WithoutDeficientEffects(_)
WithoutDeficientEffects(q) ==
    IF DeficientEffects(q) = {} THEN q
    ELSE WithoutDeficientEffects(RemoveSubtree(q, MinOf(DeficientEffects(q))))

\* the sequences with the deficient sequences and effects removed
Tolerated(seqs) ==
    SelectSeq([k \in DOMAIN seqs |->
                  IF SequenceDeficient(seqs[k]) THEN seqs[k]
                  ELSE WithoutDeficientEffects(seqs[k])],
              LAMBDA q : ~SequenceDeficient(q))

\* the effects with every synthetic identifier replaced by its prefix
IdsErased(l) ==
    [k \in DOMAIN l |->
        [l[k] EXCEPT !.sequence_id = IF StartsWith(@, "unknown_") THEN "unknown_" ELSE @,
                     !.effect_id = IF StartsWith(@, "unknown_effect_")
                                   THEN "unknown_effect_" ELSE @]]

\* C22 (as stated): a slide with no timing root or no sequence list gives the
\* empty list; a sequence with no time node or no child list, and an effect
\* with no time node or no target element, is skipped alone: the list
\* returned is the list for the tree with those nodes removed.
C22_SkippedAlone ==
    pc = "returned" =>
        /\ arg.root # "full" => ret = <<>>
        /\ arg.root = "full" => ret = extract_animation_info(SlideOf(Tolerated(arg.seqs)))

\* C22 (amended): as stated, except that a synthetic sequence_id or effect_id
\* (unknown_<index>, unknown_effect_<index>) counts the skipped nodes too: the
\* list returned and the list for the tree with the deficient nodes removed
\* have the same effects in the same order, every field equal but the index
\* in a synthetic identifier.
C22_SkippedAloneUpToIndex ==
    pc = "returned" =>
        /\ arg.root # "full" => ret = <<>>
        /\ arg.root = "full" =>
               IdsErased(ret)
                   = IdsErased(extract_animation_info(SlideOf(Tolerated(arg.seqs))))

\* C22, a case of it: a sequence with no child list and then a sequence whose
\* first two groups have no time node and no target element: the third
\* group's effect is returned
C22_Witness ==
    /\ pc = "returned"
    /\ arg.root = "full"
    /\ Len(arg.seqs) = 2
    /\ SequenceDeficient(arg.seqs[1])
    /\ ~SequenceDeficient(arg.seqs[2])
    /\ DeficientEffects(arg.seqs[2]) # {}
    /\ Len(ret) = 1
    /\ ret[1].effect_id = "unknown_effect_2"

\* the start condition the precedence rule gives for a condition with that
\* event, delay and nested timing node
StartByPrecedence(a) ==
    IF ~a.cond THEN "on_click"
    ELSE IF a.evt = Some("onBegin") THEN "with_previous"
    ELSE IF a.evt = Some("onClick") THEN "on_click"
    ELSE IF a.delay = Some("indefinite") THEN "on_click"
    ELSE IF a.tn = Some("indefinite") THEN "after_previous"
    ELSE "on_click"

\* C21: the start condition of an effect follows the precedence: event
\* onBegin gives with_previous; else event onClick gives on_click; else a
\* delay of "indefinite" gives on_click; else a nested timing node of value
\* "indefinite" gives after_previous; else on_click; no condition list gives
\* on_click; the result is always one of the three values.
C21_StartPrecedence ==
    pc \in {"extracted", "described"} =>
        /\ Len(ret.animations) = 1
        /\ ret.animations[1].start_condition = StartByPrecedence(arg)
        /\ ret.animations[1].start_condition
               \in {"on_click", "with_previous", "after_previous"}

\* C21, a case of it: an onBegin event with a delay of "indefinite" and a
\* nested node of value "indefinite": the event decides
C21_Witness ==
    /\ pc = "extracted"
    /\ arg.evt = Some("onBegin")
    /\ arg.delay = Some("indefinite")
    /\ arg.tn = Some("indefinite")
    /\ ret.animations[1].start_condition = "with_previous"

\* the layout number in the relationship record of the slide object a record
\* was built from
OwnLayout(r) ==
    IF doc.slides[r.slide_number].rels = None THEN None
    ELSE FirstNumbered(doc.slides[r.slide_number].rels[1], "slideLayout")

\* C23: for the slide at ordinal position i, the layout of the inheritance
\* decision is the one in that slide's own relationship record, and the part
\* of the direct-animation check is that slide's own part, also when the
\* slide parts are not numbered in presentation order.
C23_OwnLayoutAndPart ==
    \A r \in Records :
        /\ r.layout_animations
               = (/\ OwnLayout(r) # None
                  /\ ("layout_" \o OwnLayout(r)[1]) \in animations_by_layout)
        /\ r.direct_animations
               = (Len(r.animations) > 0 \/ has_animations_in_xml(SlideXml(r)))

\* the master number get_slide_layout_info gives for the slide of a record
ResolvedMaster(r) == get_slide_layout_info(r.slide_number, doc).master_idx

\* C24: a slide with no direct effects whose layout resolves to a master that
\* is flagged in the index is reported as inheriting animations
\* (layout_animations and has_animations true), also when the layout itself
\* is not flagged.
C24_MasterInherited ==
    \A r \in Records :
        (/\ r.animations = <<>>
         /\ ResolvedMaster(r) # None
         /\ ("master_" \o ResolvedMaster(r)[1]) \in animations_by_layout)
            => (r.layout_animations /\ r.has_animations)

\* the decision of lines 604-611 for the slide of a record against an index
DecidedAgainst(r, index) ==
    r.layout_animations
        = (ResolvedLayout(r) # None /\ ("layout_" \o ResolvedLayout(r)[1]) \in index)

\* C25: the layout index is built once, before the first slide is processed,
\* and no per-slide step adds, removes or changes an entry: during the loop
\* over the slides and after it the index is the one the scan of the
\* container gave, and the layout_animations of every record is decided
\* against that index.
C25_IndexBuiltOnce ==
    (doc.openable /\ pc \in {"slides", "done"}) =>
        /\ animations_by_layout = check_slide_master_animations(doc)
        /\ \A r \in Records : DecidedAgainst(r, check_slide_master_animations(doc))

\* C25, a case of it: a finished run over two slides, one on a flagged layout
\* and one on a layout that is not flagged
C25_Witness ==
    /\ pc = "done"
    /\ result.state = "returned"
    /\ Len(animation_data) = 2
    /\ "layout_1" \in animations_by_layout
    /\ "layout_2" \notin animations_by_layout
    /\ animation_data[1][2].layout_animations
    /\ ~animation_data[2][2].layout_animations
    /\ ResolvedLayout(animation_data[2][2]) = Some("2")

\* the zero-based bound a token of a paragraph range stores
BoundOf(token) ==
    CASE token = Some("2") -> 2
      [] token = Some("5") -> 5
      [] OTHER -> 0

TargetShapeId(c) == IF c.form \in {"no_shape", "no_spid"} THEN "unknown" ELSE "4"

TargetBuildLevel(c) ==
    IF c.form = "range"
    THEN Some("paragraph_" \o ToString(BoundOf(c.st)) \o "-" \o ToString(BoundOf(c.end)))
    ELSE None

\* the paragraphs of a range, counted from 1
RenderedRange(start, end) ==
    IF start = end THEN "animating paragraph " \o ToString(start + 1) \o "."
    ELSE "animating paragraphs " \o ToString(start + 1) \o " through "
         \o ToString(end + 1) \o "."

\* shape_id and build_level of the effect extracted are those of the target
TargetResolved(animations, c) ==
    /\ Len(animations) = 1
    /\ animations[1].shape_id = TargetShapeId(c)
    /\ animations[1].build_level = TargetBuildLevel(c)

\* the description is returned and names the paragraphs of the range
RangeRendered(description, c) ==
    /\ "value" \in DOMAIN description
    /\ Contains(description.value, RenderedRange(BoundOf(c.st), BoundOf(c.end)))

\* C26: every emitted effect has the shape_id of its shape target, "unknown"
\* when the target element names no shape or no identifier; build_level is
\* set exactly when the shape target has a paragraph range and is then
\* paragraph_<start>-<end> with the zero-based bounds as stored; and the
\* description renders it as paragraph start+1, or paragraphs start+1
\* through end+1.
C26_TargetAndBuildLevel ==
    /\ pc \in {"extracted", "described"} => TargetResolved(ret.animations, arg.tgt)
    /\ (pc = "described" /\ arg.tgt.form = "range")
           => RangeRendered(ret.description, arg.tgt)

\* no raw effect carries a key that the details add
RawEffects(animations) ==
    \A k \in DOMAIN animations :
        /\ "description" \notin DOMAIN animations[k]
        /\ "inherited_from" \notin DOMAIN animations[k]

\* each detail is the raw effect at its position plus a description
DetailsOfRaw(animations, animation_details) ==
    /\ Len(animation_details) = Len(animations)
    /\ \A k \in DOMAIN animations :
           /\ DOMAIN animation_details[k] = DOMAIN animations[k] \cup {"description"}
           /\ \A f \in DOMAIN animations[k] : animation_details[k][f] = animations[k][f]

\* C27: in every slide record emitted, animation_count is the length of
\* animation_details; has_animations is direct_animations or
\* layout_animations; animations holds the slide's direct effects only, none
\* with a description or inherited_from key; and when animations is not
\* empty, animation_details[k] is animations[k] plus a description.
C27_RecordConsistent ==
    \A r \in Records :
        /\ r.animation_count = Len(r.animation_details)
        /\ r.has_animations = (r.direct_animations \/ r.layout_animations)
        /\ r.animations = DirectEffects(r)
        /\ RawEffects(r.animations)
        /\ r.animations # <<>> => DetailsOfRaw(r.animations, r.animation_details)

\* C27, a case of it: a returned run with a record of several direct effects
\* and a record whose details are all inherited
C27_Witness ==
    /\ pc = "done"
    /\ result.state = "returned"
    /\ \E r \in Records : Len(r.animations) >= 2 /\ r.animation_count = Len(r.animations)
    /\ \E r \in Records : r.animations = <<>> /\ r.animation_count >= 1

\* a part from which extract_animation_info returns at least one effect
Extractable(part) == Parses(part) /\ extract_animation_info(part.xml) # <<>>

\* C28: a root for which extract_animation_info returns at least one effect
\* has has_animations_in_xml true, and so every layout from which effects can
\* be extracted is flagged in the layout index.
C28_ExtractableIsFlagged ==
    (doc.openable /\ pc \in {"slides", "done"}) =>
        /\ \A k \in DOMAIN doc.slides :
               Extractable(doc.slides[k]) => has_animations_in_xml(doc.slides[k].xml)
        /\ \A k \in DOMAIN doc.layouts :
               Extractable(doc.layouts[k]) =>
                   /\ has_animations_in_xml(doc.layouts[k].xml)
                   /\ ("layout_" \o doc.layouts[k].idx) \in animations_by_layout

\* the ordinals a filter selects in the presentation: all of them for None
\* and for the empty filter
Selected ==
    IF slide_filter = None \/ slide_filter[1] = {} THEN 1..Len(doc.slides)
    ELSE slide_filter[1] \cap (1..Len(doc.slides))

\* the record of the slide at ordinal n in a run with no filter: that run
\* returns and stores this record under slide_<n>
InUnfilteredRun(n, index, record) ==
    /\ \A m \in 1..Len(doc.slides) : "value" \in DOMAIN SlidePass(doc, index, m)
    /\ SlidePass(doc, index, n).value = record

\* C29: with a non-empty slide_filter a run emits a record for exactly the
\* ordinals of the filter that exist in the presentation, keyed
\* slide_<ordinal>, each identical to the record of that slide in a run with
\* no filter; None and the empty filter process every slide.
C29_FilterSelects ==
    (pc = "done" /\ doc.openable) =>
        /\ result.state = "returned"
        /\ {result.value[k][1] : k \in DOMAIN result.value}
               = {"slide_" \o ToString(n) : n \in Selected}
        /\ \A k \in DOMAIN result.value :
               /\ result.value[k][1] = "slide_" \o ToString(result.value[k][2].slide_number)
               /\ InUnfilteredRun(result.value[k][2].slide_number,
                                  check_slide_master_animations(doc), result.value[k][2])

\* the description of an inherited effect has the subject phrase of that shape
SubjectFrom(description, shape_details) ==
    StartsWith(description, InheritedPrefix \o ElementDesc(shape_details) \o " ")

\* the description quotes the text of that shape
QuotesText(description, shape_details) ==
    shape_details.text # "" /\ Contains(description, "\"" \o shape_details.text \o "\"")

\* the inherited detail is not described by that shape of the slide
NotDescribedBy(description, shape_details) ==
    ~SubjectFrom(description, shape_details) /\ ~QuotesText(description, shape_details)

\* C30: the subject phrase of the description of an effect inherited from a
\* layout is never built from the kind or text of a shape of the slide
\* itself: a layout effect whose target identifier is also the identifier of
\* a slide shape is not described with that slide shape's kind or text.
C30_InheritedSubject ==
    \A r \in Records :
        \A k \in DOMAIN r.animation_details :
            (IsInherited(r.animation_details[k])
             /\ r.animation_details[k].shape_id \in DOMAIN r.shapes)
                => NotDescribedBy(r.animation_details[k].description,
                                  r.shapes[r.animation_details[k].shape_id])

====
